---- MODULE Spec2Model ----
(***************************************************************************)
(* A model of the vibe-snake-game core: the seeded generator, the snake,   *)
(* food placement, the replay recorder / player / storage and the game     *)
(* loop that ties them together.                                           *)
(*                                                                         *)
(* Every component has its own specification (SpecRng, SpecSnake, ...):    *)
(* the variables of the other components stay at their initial values.     *)
(***************************************************************************)
EXTENDS Integers, Sequences, FiniteSets, TLC

VARIABLES
    rngs,       \* SpecRng: two SeededRandom objects and what they returned
    snake,      \* SpecSnake: one Snake object
    snakeLog,   \* SpecSnake: the last Snake call, its argument, result and pre-state
    food,       \* SpecFood: one Food object with its generator and last respawn call
    rec,        \* SpecReplay: one ReplayRecorder
    player,     \* SpecReplay: one ReplayPlayer
    calls,      \* SpecReplay: what the player's onInput / onComplete callbacks saw
    store,      \* SpecStorage: localStorage (key -> stored text) and the last call
    share,      \* SpecShare: a log, its exported text and what importing it returned
    game,       \* SpecGame: the Game object and everything it owns
    pilot,      \* SpecPilot: an AutoPilot with its snake, food and obstacles
    tape,       \* SpecRecorder: a ReplayRecorder, its caller's objects and the heap
    manager     \* SpecObstacle, SpecSpawns: an Obstacle, an ObstacleManager and their calls

vars ==
    <<rngs, snake, snakeLog, food, rec, player, calls, store, share, game, pilot, tape, manager>>

(***************************************************************************)
(* 32-bit integer arithmetic.  A 32-bit pattern is a pair <<hi, lo>> of    *)
(* 16-bit halves: the checker's integers are 32-bit signed, a uint32 does  *)
(* not fit one.                                                            *)
(***************************************************************************)
Half == 65536
Byte == 256

RECURSIVE XorBits(_, _)
XorBits(a, b) ==
    IF a = 0 THEN b
    ELSE IF b = 0 THEN a
    ELSE ((a + b) % 2) + 2 * XorBits(a \div 2, b \div 2)

RECURSIVE OrBits(_, _)
OrBits(a, b) ==
    IF a = 0 THEN b
    ELSE IF b = 0 THEN a
    ELSE (IF a % 2 = 1 \/ b % 2 = 1 THEN 1 ELSE 0) + 2 * OrBits(a \div 2, b \div 2)

\* a ^ b on bytes, tabulated
XorByte == [a \in 0..(Byte - 1) |-> [b \in 0..(Byte - 1) |-> XorBits(a, b)]]

Xor16(a, b) ==
    XorByte[a \div Byte][b \div Byte] * Byte + XorByte[a % Byte][b % Byte]

\* a ^ b
XorW(a, b) == <<Xor16(a[1], b[1]), Xor16(a[2], b[2])>>

\* a | k, for a constant k below 2^16
OrLow(a, k) == <<a[1], OrBits(a[2], k)>>

\* a >>> s, for 0 < s < 16, given p = 2^s and q = 2^(16 - s)
ShrW(a, p, q) == <<a[1] \div p, (a[1] % p) * q + a[2] \div p>>

\* (a + b) mod 2^32
AddW(a, b) ==
    LET lo == a[2] + b[2]
    IN  <<(a[1] + b[1] + lo \div Half) % Half, lo % Half>>

\* the low 16 bits of x * y, for 16-bit x and y
MulLow16(x, y) ==
    ((x % Byte) * (y % Byte)
       + (((x \div Byte) * (y % Byte) + (x % Byte) * (y \div Byte)) % Byte) * Byte) % Half

\* the full 32-bit product of 16-bit x and y
Mul16(x, y) ==
    LET x1 == x \div Byte  x0 == x % Byte
        y1 == y \div Byte  y0 == y % Byte
        mid == x1 * y0 + x0 * y1
        low == x0 * y0 + (mid % Byte) * Byte
    IN  <<x1 * y1 + mid \div Byte + low \div Half, low % Half>>

\* Math.imul(a, b): the low 32 bits of a * b
Imul(a, b) ==
    LET p == Mul16(a[2], b[2])
    IN  <<(p[1] + MulLow16(a[1], b[2]) + MulLow16(a[2], b[1])) % Half, p[2]>>

(***************************************************************************)
(* SeededRandom.  The field `state` is a JavaScript number, not a 32-bit   *)
(* integer: `this.state += 0x6D2B79F5` never wraps.  It is kept as         *)
(* [c, hi, lo] with value c * 2^32 + hi * 2^16 + lo; the bit operations of *)
(* random() read it through ToInt32, that is, they read <<hi, lo>>.        *)
(***************************************************************************)
\* 0x6D2B79F5 as <<hi, lo>>
Increment == <<27947, 31221>>

\* an integer seed as a state
NumberState(seed) ==
    [c |-> (seed \div Half) \div Half, hi |-> (seed \div Half) % Half, lo |-> seed % Half]

\* constructor(seed): this.state = seed
SeededRandom(seed) == NumberState(seed)

\* setSeed(seed) on a generator in state st: this.state = seed
setSeedAddsToState(st, seed) ==
    LET n == NumberState(seed)
        lo == st.lo + n.lo
        hi == st.hi + n.hi + lo \div Half
    IN  [c |-> st.c + n.c + hi \div Half, hi |-> hi % Half, lo |-> lo % Half]
setSeed(st, seed) == NumberState(seed)

\* this.state += 0x6D2B79F5
Advance(st) ==
    LET lo == st.lo + Increment[2]
        hi == st.hi + Increment[1] + lo \div Half
    IN  [c |-> st.c + hi \div Half, hi |-> hi % Half, lo |-> lo % Half]

\* the int32 t computed by lines 31-33 from the advanced state, as a bit pattern
Mix(st) ==
    LET t0 == <<st.hi, st.lo>>
        t1 == Imul(XorW(t0, ShrW(t0, 32768, 2)), OrLow(t0, 1))
    IN  XorW(t1, AddW(t1, Imul(XorW(t1, ShrW(t1, 128, 512)), OrLow(t1, 61))))

\* the value of an int32 bit pattern, as <<hi, lo>> with hi in -32768..32767
AsInt32(w) == <<IF w[1] >= Half \div 2 THEN w[1] - Half ELSE w[1], w[2]>>

\* x >>> 0: an int32 read as a uint32
ToUint32(x) == <<IF x[1] < 0 THEN x[1] + Half ELSE x[1], x[2]>>

\* The numerator n of the value n / 4294967296 that random() returns, as <<hi, lo>>
\* (n = hi * 2^16 + lo), computed from the advanced state.
FinalMixNoUnsigned(st) == LET t == Mix(st) IN AsInt32(XorW(t, ShrW(t, 16384, 4)))
FinalMix(st) == LET t == Mix(st) IN ToUint32(AsInt32(XorW(t, ShrW(t, 16384, 4))))

\* random(): the new state and the numerator of the returned value
random(st) == LET next == Advance(st) IN [state |-> next, val |-> FinalMix(next)]

\* Math.floor(v * max) for v = n / 2^32, n = <<hi, lo>>, 0 < max < 2^15
FloorTimes(n, max) == (n[1] * max + (n[2] * max) \div Half) \div Half

\* randomInt(max): the new state and the returned integer
randomInt(st, max) ==
    LET r == random(st) IN [state |-> r.state, val |-> FloorTimes(r.val, max)]

\* getSeed(): the current state; it is an integer of [0, 2^32) iff c = 0
getSeed(st) == st

(***************************************************************************)
(* SpecRng: two generators.  "a" is constructed and then only drawn from;  *)
(* "b" may also be re-seeded with setSeed.  Each keeps the seed it was     *)
(* last given and the calls made since, with what they returned: for       *)
(* random() the numerator <<hi, lo>> of the value, for randomInt <<k>>.    *)
(***************************************************************************)
MaxDraws == 3
Seeds == {0, 12345, -1}
Maxes == {7}
GenIds == {"a", "b"}

RngFrame == UNCHANGED <<snake, snakeLog, food, rec, player, calls, store, share, game, pilot, tape, manager>>

NewGen(seed) ==
    [state |-> SeededRandom(seed), seed |-> seed, outs |-> <<>>, reseeded |-> FALSE]

RngInit == rngs \in [GenIds -> {NewGen(s) : s \in Seeds}]

RngRandom(g) ==
    /\ Len(rngs[g].outs) < MaxDraws
    /\ \E r \in {random(rngs[g].state)} :
          rngs' = [rngs EXCEPT ![g].state = r.state,
                               ![g].outs = Append(@, [op |-> "random", max |-> 0, val |-> r.val])]
    /\ RngFrame

RngRandomInt(g, max) ==
    /\ Len(rngs[g].outs) < MaxDraws
    /\ \E r \in {randomInt(rngs[g].state, max)} :
          rngs' = [rngs EXCEPT ![g].state = r.state,
                               ![g].outs = Append(@, [op |-> "randomInt", max |-> max, val |-> <<r.val>>])]
    /\ RngFrame

RngSetSeed(g, seed) ==
    /\ g = "b"
    /\ rngs[g].outs # <<>>
    /\ rngs' = [rngs EXCEPT ![g] = [state |-> setSeed(rngs[g].state, seed), seed |-> seed,
                                    outs |-> <<>>, reseeded |-> TRUE]]
    /\ RngFrame

RngNext ==
    \/ \E g \in GenIds : RngRandom(g)
    \/ \E g \in GenIds, max \in Maxes : RngRandomInt(g, max)
    \/ \E g \in GenIds, seed \in Seeds : RngSetSeed(g, seed)

Min(a, b) == IF a <= b THEN a ELSE b

\* C7: two generators given the same seed, by the constructor or by setSeed after
\* any number of draws, return the same value on each call of their common prefix
\* of calls (random() or randomInt(max) with the same max).
SameSeedSameSequence ==
    \A g \in GenIds, h \in GenIds :
        rngs[g].seed = rngs[h].seed =>
            \A i \in 1..Min(Len(rngs[g].outs), Len(rngs[h].outs)) :
                (\A j \in 1..i : /\ rngs[g].outs[j].op = rngs[h].outs[j].op
                                 /\ rngs[g].outs[j].max = rngs[h].outs[j].max)
                    => rngs[g].outs[i].val = rngs[h].outs[i].val

\* C7 witness: "b" was re-seeded after draws with the seed "a" was constructed with,
\* and both have since made the same MaxDraws calls, with equal results.
ReseededMatchesFresh ==
    /\ rngs["b"].reseeded /\ ~rngs["a"].reseeded
    /\ rngs["a"].seed = rngs["b"].seed
    /\ Len(rngs["a"].outs) = MaxDraws
    /\ rngs["a"].outs = rngs["b"].outs
    /\ \E i \in 1..MaxDraws : rngs["a"].outs[i].op = "random"
    /\ \E i \in 1..MaxDraws : rngs["a"].outs[i].op = "randomInt"

\* C8: every value random() returned is n / 2^32 with 0 <= n < 2^32, that is
\* 0 <= v < 1, and every randomInt(max) returned an integer k with 0 <= k < max.
DrawsInRange ==
    \A g \in GenIds : \A i \in 1..Len(rngs[g].outs) :
        LET o == rngs[g].outs[i]
        IN  /\ o.op = "random" =>
                  /\ o.val[1] \in 0..(Half - 1)
                  /\ o.val[2] \in 0..(Half - 1)
            /\ o.op = "randomInt" => o.val[1] \in 0..(o.max - 1)

\* C8 witness: a generator seeded with a negative seed has made MaxDraws draws, of
\* both kinds, and one random() value lies in the upper half of [0, 1), where the
\* int32 before `>>> 0` is negative.
DrewFromNegativeSeed ==
    \E g \in GenIds :
        /\ rngs[g].seed < 0
        /\ Len(rngs[g].outs) = MaxDraws
        /\ \E i \in 1..MaxDraws : rngs[g].outs[i].op = "randomInt"
        /\ \E i \in 1..MaxDraws :
              rngs[g].outs[i].op = "random" /\ rngs[g].outs[i].val[1] >= Half \div 2

\* C28: whatever draws a generator has made since it was given a seed of
\* [0, 2^32), the state getSeed() returns is an integer of [0, 2^32).
StateStaysUint32 ==
    \A g \in GenIds : SeededRandom(rngs[g].seed).c = 0 => getSeed(rngs[g].state).c = 0

(***************************************************************************)
(* Snake.  A point and a direction are records [x, y]; segments is the     *)
(* sequence of points, head first.                                         *)
(***************************************************************************)
GridWidth == 7
GridHeight == 7

Pt(x, y) == [x |-> x, y |-> y]
UP == Pt(0, -1)
DOWN == Pt(0, 1)
LEFT == Pt(-1, 0)
RIGHT == Pt(1, 0)
\* the vectors the key handler and the auto-pilot pass to setDirection
Vectors == {UP, DOWN, LEFT, RIGHT}

\* new Snake(gridWidth, gridHeight)
NewSnake(gridWidth, gridHeight) ==
    [segments |-> <<Pt(5, 5), Pt(4, 5), Pt(3, 5)>>,
     direction |-> RIGHT, nextDirection |-> RIGHT, growing |-> FALSE,
     gridWidth |-> gridWidth, gridHeight |-> gridHeight]

\* the test of line 23: dir is the exact inverse of v
Opposes(v, dir) == v.x + dir.x = 0 /\ v.y + dir.y = 0

\* setDirection(dir) without the test of line 23
setDirectionUnchecked(sn, dir) == [snake |-> [sn EXCEPT !.nextDirection = dir], ret |-> TRUE]

\* setDirection(dir): the snake afterwards and the value returned
setDirectionAgainstPending(sn, dir) ==
    IF Opposes(sn.nextDirection, dir)
    THEN [snake |-> sn, ret |-> FALSE]
    ELSE [snake |-> [sn EXCEPT !.nextDirection = dir], ret |-> TRUE]
setDirection(sn, dir) ==
    IF Opposes(sn.direction, dir)
    THEN [snake |-> sn, ret |-> FALSE]
    ELSE [snake |-> [sn EXCEPT !.nextDirection = dir], ret |-> TRUE]

\* segments.pop()
Pop(segs) == SubSeq(segs, 1, Len(segs) - 1)

\* move() stepping along the direction of the last move
moveAlongOldDirection(sn) ==
    LET head == sn.segments[1]
        newHead == Pt(head.x + sn.direction.x, head.y + sn.direction.y)
        grown == <<newHead>> \o sn.segments
    IN  [sn EXCEPT !.direction = sn.nextDirection,
                   !.segments = IF ~sn.growing THEN Pop(grown) ELSE grown,
                   !.growing = FALSE]

\* move()
moveKeepsGrowing(sn) ==
    LET head == sn.segments[1]
        newHead == Pt(head.x + sn.nextDirection.x, head.y + sn.nextDirection.y)
        grown == <<newHead>> \o sn.segments
    IN  [sn EXCEPT !.direction = sn.nextDirection,
                   !.segments = IF sn.growing THEN grown ELSE Pop(grown)]
move(sn) ==
    LET direction == sn.nextDirection
        head == sn.segments[1]
        newHead == Pt(head.x + direction.x, head.y + direction.y)
        grown == <<newHead>> \o sn.segments
    IN  [sn EXCEPT !.direction = direction,
                   !.segments = IF ~sn.growing THEN Pop(grown) ELSE grown,
                   !.growing = FALSE]

\* grow()
grow(sn) == [sn EXCEPT !.growing = TRUE]

\* checkCollision() taking the cells just beyond the right and bottom edges
\* for cells of the grid
checkCollisionPastEdge(sn) ==
    LET head == sn.segments[1]
    IN  \/ head.x < 0 \/ head.x > sn.gridWidth \/ head.y < 0 \/ head.y > sn.gridHeight
        \/ \E i \in 2..Len(sn.segments) :
              head.x = sn.segments[i].x /\ head.y = sn.segments[i].y

\* checkCollision()
checkCollision(sn) ==
    LET head == sn.segments[1]
    IN  \/ head.x < 0 \/ head.x >= sn.gridWidth \/ head.y < 0 \/ head.y >= sn.gridHeight
        \/ \E i \in 2..Len(sn.segments) :
              head.x = sn.segments[i].x /\ head.y = sn.segments[i].y

(***************************************************************************)
(* SpecSnake: one Snake under any sequence of setDirection, grow and move  *)
(* calls.  snakeLog keeps the last call: its name, argument and result,    *)
(* the snake before it, the number of grow() calls since the last move()   *)
(* (as it was before the call) and the number of moves made.               *)
(***************************************************************************)
MaxMoves == 4
MaxGrows == 2

SnakeFrame == UNCHANGED <<rngs, food, rec, player, calls, store, share, game, pilot, tape, manager>>

NoCall(sn) == [op |-> "new", arg |-> RIGHT, ret |-> TRUE, before |-> sn, grows |-> 0, moves |-> 0]

SnakeInit ==
    /\ snake = NewSnake(GridWidth, GridHeight)
    /\ snakeLog = NoCall(snake)

\* the number of grow() calls since the last move(), after the last call
GrowsNow ==
    CASE snakeLog.op = "grow" -> snakeLog.grows + 1
      [] snakeLog.op = "move" -> 0
      [] OTHER -> snakeLog.grows

SnakeSetDirection(dir) ==
    /\ snake' = setDirection(snake, dir).snake
    /\ snakeLog' = [op |-> "setDirection", arg |-> dir, ret |-> setDirection(snake, dir).ret,
                    before |-> snake, grows |-> GrowsNow, moves |-> snakeLog.moves]
    /\ SnakeFrame

SnakeGrow ==
    /\ GrowsNow < MaxGrows
    /\ snake' = grow(snake)
    /\ snakeLog' = [op |-> "grow", arg |-> RIGHT, ret |-> TRUE,
                    before |-> snake, grows |-> GrowsNow, moves |-> snakeLog.moves]
    /\ SnakeFrame

SnakeMove ==
    /\ snakeLog.moves < MaxMoves
    /\ snake' = move(snake)
    /\ snakeLog' = [op |-> "move", arg |-> RIGHT, ret |-> TRUE,
                    before |-> snake, grows |-> GrowsNow, moves |-> snakeLog.moves + 1]
    /\ SnakeFrame

SnakeCheckCollision ==
    /\ snakeLog' = [op |-> "checkCollision", arg |-> RIGHT, ret |-> checkCollision(snake),
                    before |-> snake, grows |-> GrowsNow, moves |-> snakeLog.moves]
    /\ UNCHANGED snake
    /\ SnakeFrame

SnakeNext ==
    \/ \E dir \in Vectors : SnakeSetDirection(dir)
    \/ SnakeGrow
    \/ SnakeMove
    \/ SnakeCheckCollision

\* C4: setDirection(vec) returns false and leaves nextDirection as it was exactly
\* when vec is the inverse of the current direction (the pending nextDirection plays
\* no part); in every other case vec becomes nextDirection and the call returns true.
SetDirectionRejectsOnlyReversal ==
    snakeLog.op = "setDirection" =>
        LET pre == snakeLog.before
            inverse == snakeLog.arg.x = -pre.direction.x /\ snakeLog.arg.y = -pre.direction.y
        IN  /\ inverse => snakeLog.ret = FALSE /\ snake.nextDirection = pre.nextDirection
            /\ ~inverse => snakeLog.ret = TRUE /\ snake.nextDirection = snakeLog.arg
            /\ snake.direction = pre.direction /\ snake.segments = pre.segments

\* C4 witness: a turn is pending (nextDirection differs from direction) and the call
\* passed the inverse of the pending direction, which was accepted.
SetDirectionAcceptsInverseOfPending ==
    /\ snakeLog.op = "setDirection"
    /\ snakeLog.before.nextDirection # snakeLog.before.direction
    /\ snakeLog.arg.x = -snakeLog.before.nextDirection.x
    /\ snakeLog.arg.y = -snakeLog.before.nextDirection.y
    /\ snakeLog.ret = TRUE
    /\ snake.nextDirection = snakeLog.arg

\* C5: a move() after one or more grow() calls makes the snake exactly one segment
\* longer, and a move() with no grow() since the previous move keeps its length.
GrowIsIdempotent ==
    snakeLog.op = "move" =>
        Len(snake.segments) =
            Len(snakeLog.before.segments) + (IF snakeLog.grows >= 1 THEN 1 ELSE 0)

\* C5 witness: two grow() calls and then a move, which made the snake one longer.
GrewOnceAfterTwoGrows ==
    /\ snakeLog.op = "move"
    /\ snakeLog.grows = 2
    /\ snakeLog.before.growing
    /\ Len(snake.segments) = Len(snakeLog.before.segments) + 1

\* C21: move() makes the pending direction the current one, puts the cell
\* old head + that direction in front, keeps every former segment in order and
\* drops the last one unless growth was pending; then the tail stays, the
\* growth flag is cleared and the snake is one segment longer.
MovePrependsHead ==
    snakeLog.op = "move"
        => LET pre == snakeLog.before
               kept == IF pre.growing THEN Len(pre.segments) ELSE Len(pre.segments) - 1
           IN  /\ snake.direction = pre.nextDirection
               /\ snake.nextDirection = pre.nextDirection
               /\ snake.segments[1] = Pt(pre.segments[1].x + snake.direction.x,
                                         pre.segments[1].y + snake.direction.y)
               /\ Len(snake.segments) = kept + 1
               /\ \A i \in 1..kept : snake.segments[i + 1] = pre.segments[i]
               /\ ~snake.growing

\* a snake with a turn and a growth pending has moved
MovedWithTurnAndGrowthPending ==
    /\ snakeLog.op = "move"
    /\ snakeLog.before.growing
    /\ snakeLog.before.nextDirection # snakeLog.before.direction
    /\ Len(snake.segments) = Len(snakeLog.before.segments) + 1

\* C24: the direction a move applies is never the inverse of the direction
\* the move before it applied, whatever setDirection calls came between, so
\* the new head is never the segment behind the old head.
MoveNeverReverses ==
    snakeLog.op = "move"
        => /\ ~Opposes(snake.direction, snakeLog.before.direction)
           /\ snake.segments[1] # snakeLog.before.segments[2]

\* the second move in a row that applied a turn
TurnedAgainAfterTurn ==
    /\ snakeLog.op = "move"
    /\ snakeLog.moves >= 2
    /\ snake.direction # snakeLog.before.direction
    /\ snakeLog.before.segments[1].x # snakeLog.before.segments[2].x

\* C20: checkCollision() returns true exactly when the head is outside the
\* grid or on the cell of another segment; a head on an edge cell that is on
\* no other segment is no collision.
CollisionIsWallOrSelf ==
    snakeLog.op = "checkCollision"
        => LET head == snake.segments[1]
               inside == head \in {Pt(x, y) : x \in 0..(snake.gridWidth - 1),
                                              y \in 0..(snake.gridHeight - 1)}
               onSelf == head \in {snake.segments[i] : i \in 2..Len(snake.segments)}
           IN  /\ snakeLog.ret = (~inside \/ onSelf)
               /\ snake = snakeLog.before

\* checkCollision() found the head of a grown snake on its own tail, inside
\* the grid
HeadOnOwnTail ==
    /\ snakeLog.op = "checkCollision"
    /\ snakeLog.ret
    /\ Len(snake.segments) = 5
    /\ snake.segments[1] = snake.segments[5]
    /\ snake.segments[1].x < snake.gridWidth

(***************************************************************************)
(* Food (the version with a seeded generator and obstacle positions).      *)
(* rng is Null or <<st>>, st the state of the SeededRandom given by        *)
(* setRng; when it is Null randomize() draws from Math.random and any cell *)
(* of the grid may come.                                                   *)
(***************************************************************************)
\* a reference is Null or <<object>>
Null == <<>>

Cells(w, h) == {Pt(x, y) : x \in 0..(w - 1), y \in 0..(h - 1)}

\* segments.some(s => s.x === x && s.y === y), for the set of an array's points
Overlaps(points, x, y) == \E q \in points : q.x = x /\ q.y = y

\* the points of an array
Points(seq) == {seq[i] : i \in 1..Len(seq)}

\* randomize() with a seeded generator: x is drawn first, then y
randomize(f) ==
    LET dx == randomInt(f.rng[1], f.gridWidth)
        dy == randomInt(dx.state, f.gridHeight)
    IN  [f EXCEPT !.x = dx.val, !.y = dy.val, !.rng = <<dy.state>>]

\* The loop of respawn() with a seeded generator, cut after `fuel` iterations:
\* valid = FALSE means the loop was still running then.  (g ranges over the one
\* value of randomize(f): this hands the next iteration a value, not an expression.)
RECURSIVE RespawnLoop(_, _, _, _, _)
RespawnLoop(f, segs, obs, n, fuel) ==
    IF fuel = 0 THEN [food |-> f, attempts |-> n, valid |-> FALSE]
    ELSE CHOOSE result \in
            {LET overlapsSnake == Overlaps(segs, g.x, g.y)
                 overlapsObstacle == Overlaps(obs, g.x, g.y)
             IN  IF ~overlapsSnake /\ ~overlapsObstacle
                 THEN [food |-> g, attempts |-> n + 1, valid |-> TRUE]
                 ELSE RespawnLoop(g, segs, obs, n + 1, fuel - 1) : g \in {randomize(f)}} : TRUE

\* iterations of the respawn loop the model follows before it reports the loop
\* as still running
MaxAttempts == 60

\* respawn(snakeSegments, obstaclePositions) with a seeded generator
respawnIgnoresObstacles(f, segs, obs) == RespawnLoop(f, segs, {}, 0, MaxAttempts)
respawn(f, segs, obs) == RespawnLoop(f, segs, obs, 0, MaxAttempts)

\* respawn(...) drawing from Math.random: every free cell is a possible result,
\* and with no free cell the loop never ends
FreeCells(f, segs, obs) ==
    {c \in Cells(f.gridWidth, f.gridHeight) : ~Overlaps(segs, c.x, c.y) /\ ~Overlaps(obs, c.x, c.y)}

(***************************************************************************)
(* SpecFood: one Food on a small grid.  The caller's snake segments and    *)
(* obstacle positions (the arguments of every respawn call) are drawn at   *)
(* the start; food.call tells how the last respawn call went: the number   *)
(* of candidates it drew and whether it returned.                          *)
(***************************************************************************)
FoodWidth == 3
FoodHeight == 2
MaxOccupied == 2
MaxRespawns == 2

FoodFrame == UNCHANGED <<rngs, snake, snakeLog, rec, player, calls, store, share, game, pilot, tape, manager>>

\* new Food(gridWidth, gridHeight): rng is null, so randomize() uses Math.random
\* and leaves the food on any cell c
NewFood(gridWidth, gridHeight, c) ==
    [x |-> c.x, y |-> c.y, gridWidth |-> gridWidth, gridHeight |-> gridHeight, rng |-> Null]

\* the snake cells and obstacle cells a caller may hold: at most MaxOccupied cells,
\* no obstacle under the snake; or a snake that fills the grid
Occupancies ==
    {o \in [segs : SUBSET Cells(FoodWidth, FoodHeight), obs : SUBSET Cells(FoodWidth, FoodHeight)] :
        /\ o.segs \cap o.obs = {}
        /\ \/ Cardinality(o.segs \cup o.obs) <= MaxOccupied
           \/ o.segs = Cells(FoodWidth, FoodHeight)}

FoodInit ==
    \E c \in Cells(FoodWidth, FoodHeight), o \in Occupancies :
        food = [obj |-> NewFood(FoodWidth, FoodHeight, c), segs |-> o.segs, obs |-> o.obs,
                call |-> [status |-> "none", attempts |-> 0, count |-> 0]]

\* setRng(rng), with a generator just constructed from seed
FoodSetRng(seed) ==
    /\ food.call.status # "looping"
    /\ food.obj.rng = Null
    /\ food' = [food EXCEPT !.obj.rng = <<SeededRandom(seed)>>]
    /\ FoodFrame

\* clearRng()
FoodClearRng ==
    /\ food.call.status # "looping"
    /\ food.obj.rng # Null
    /\ food' = [food EXCEPT !.obj.rng = Null]
    /\ FoodFrame

\* respawn(segs, obs) with the seeded generator
FoodRespawnSeeded ==
    /\ food.call.status # "looping"
    /\ food.call.count < MaxRespawns
    /\ food.obj.rng # Null
    /\ \E r \in {respawn(food.obj, food.segs, food.obs)} :
          food' = [food EXCEPT !.obj = r.food,
                               !.call = [status |-> IF r.valid THEN "returned" ELSE "looping",
                                         attempts |-> r.attempts, count |-> food.call.count + 1]]
    /\ FoodFrame

\* respawn(segs, obs) drawing from Math.random
FoodRespawnUnseeded ==
    /\ food.call.status # "looping"
    /\ food.call.count < MaxRespawns
    /\ food.obj.rng = Null
    /\ \/ \E c \in FreeCells(food.obj, food.segs, food.obs) :
             food' = [food EXCEPT !.obj.x = c.x, !.obj.y = c.y,
                                  !.call = [status |-> "returned", attempts |-> 1,
                                            count |-> food.call.count + 1]]
       \/ /\ FreeCells(food.obj, food.segs, food.obs) = {}
          /\ food' = [food EXCEPT !.call = [status |-> "looping", attempts |-> MaxAttempts,
                                            count |-> food.call.count + 1]]
    /\ FoodFrame

FoodNext ==
    \/ \E seed \in Seeds : FoodSetRng(seed)
    \/ FoodClearRng
    \/ FoodRespawnSeeded
    \/ FoodRespawnUnseeded

\* C6: whenever respawn(snakeSegments, obstaclePositions) has returned, the food
\* cell is inside the grid, on no snake segment and on no obstacle passed to the call.
RespawnAvoidsOccupied ==
    food.call.status = "returned" =>
        /\ food.obj.x \in 0..(food.obj.gridWidth - 1)
        /\ food.obj.y \in 0..(food.obj.gridHeight - 1)
        /\ Pt(food.obj.x, food.obj.y) \notin food.segs
        /\ Pt(food.obj.x, food.obj.y) \notin food.obs

\* C6 witness: a seeded respawn, called with snake cells and obstacle cells, has
\* returned after it had to reject candidates.
RespawnRejectedCandidates ==
    /\ food.call.status = "returned"
    /\ food.obj.rng # Null
    /\ food.call.attempts >= 3
    /\ food.segs # {}
    /\ food.obs # {}
    /\ food.obs \cap food.segs = {}

\* C25: respawn(snakeSegments, obstaclePositions) returns after a bounded
\* number of attempts even when the snake and the obstacles cover every cell
\* of the grid: no call on a full grid is left drawing candidates.
RespawnReturnsOnFullGrid ==
    FreeCells(food.obj, food.segs, food.obs) = {} => food.call.status # "looping"

(***************************************************************************)
(* ReplayRecorder and ReplayPlayer.  A ReplayData log is a record; an      *)
(* input is [frame, direction] with direction one of the four names.       *)
(***************************************************************************)
DirectionNames == {"up", "down", "left", "right"}

\* DIRECTION_VECTORS[name]
DIRECTION_VECTORS(name) ==
    CASE name = "up" -> UP
      [] name = "down" -> DOWN
      [] name = "left" -> LEFT
      [] name = "right" -> RIGHT

\* VECTOR_TO_DIRECTION[`${x},${y}`]: <<name>>, or Null for a vector with no name
VECTOR_TO_DIRECTION(v) ==
    CASE v = UP -> <<"up">>
      [] v = DOWN -> <<"down">>
      [] v = LEFT -> <<"left">>
      [] v = RIGHT -> <<"right">>
      [] OTHER -> Null

\* new ReplayRecorder()
NewRecorder ==
    [inputs |-> <<>>, currentFrame |-> 0, seed |-> 0, gridWidth |-> 0, gridHeight |-> 0,
     initialSnake |-> <<>>, initialDirection |-> RIGHT, finalScore |-> 0, timestamp |-> 0,
     speedPercent |-> 75, isRecording |-> FALSE]

\* startRecording(...) without the assignments of lines 154 and 155
startRecordingKeepsInputs(r, seed, gridWidth, gridHeight, initialSnake, initialDirection, speedPercent, now) ==
    [r EXCEPT !.seed = seed,
              !.gridWidth = gridWidth, !.gridHeight = gridHeight,
              !.initialSnake = initialSnake, !.initialDirection = initialDirection,
              !.speedPercent = speedPercent, !.timestamp = now, !.isRecording = TRUE]

\* startRecording(seed, gridWidth, gridHeight, initialSnake, initialDirection,
\* speedPercent), called when Date.now() is `now`
startRecording(r, seed, gridWidth, gridHeight, initialSnake, initialDirection, speedPercent, now) ==
    [r EXCEPT !.inputs = <<>>, !.currentFrame = 0, !.seed = seed,
              !.gridWidth = gridWidth, !.gridHeight = gridHeight,
              !.initialSnake = initialSnake, !.initialDirection = initialDirection,
              !.speedPercent = speedPercent, !.timestamp = now, !.isRecording = TRUE]

\* recordInput(direction) without the test of isRecording
recordInputAlways(r, direction) ==
    LET dirName == VECTOR_TO_DIRECTION(direction)
    IN  IF dirName # Null
        THEN [r EXCEPT !.inputs = Append(@, [frame |-> r.currentFrame, direction |-> dirName[1]])]
        ELSE r

\* recordInput(direction)
recordInput(r, direction) ==
    IF ~r.isRecording THEN r
    ELSE LET dirName == VECTOR_TO_DIRECTION(direction)
         IN  IF dirName # Null
             THEN [r EXCEPT !.inputs = Append(@, [frame |-> r.currentFrame, direction |-> dirName[1]])]
             ELSE r

\* ReplayRecorder.advanceFrame()
recorderAdvanceFrame(r) ==
    IF r.isRecording THEN [r EXCEPT !.currentFrame = @ + 1] ELSE r

\* stopRecording(finalScore) without the assignment of line 195
stopRecordingStaysRecording(r, finalScore) ==
    [rec |-> [r EXCEPT !.finalScore = finalScore],
     data |-> [version |-> 1, seed |-> r.seed, gridWidth |-> r.gridWidth,
               gridHeight |-> r.gridHeight, initialSnake |-> r.initialSnake,
               initialDirection |-> r.initialDirection, inputs |-> r.inputs,
               finalScore |-> finalScore, timestamp |-> r.timestamp,
               speedPercent |-> r.speedPercent]]

\* stopRecording(finalScore): the recorder afterwards and the log returned
stopRecording(r, finalScore) ==
    [rec |-> [r EXCEPT !.isRecording = FALSE, !.finalScore = finalScore],
     data |-> [version |-> 1, seed |-> r.seed, gridWidth |-> r.gridWidth,
               gridHeight |-> r.gridHeight, initialSnake |-> r.initialSnake,
               initialDirection |-> r.initialDirection, inputs |-> r.inputs,
               finalScore |-> finalScore, timestamp |-> r.timestamp,
               speedPercent |-> r.speedPercent]]

\* new ReplayPlayer(); hasCallbacks tells that startPlayback has set the callbacks
NewPlayer ==
    [replayData |-> Null, currentFrame |-> 0, inputIndex |-> 0, isPlaying |-> FALSE,
     isPaused |-> FALSE, speed |-> 2, hasCallbacks |-> FALSE]

\* the playback speeds 0.5, 1 and 2, counted in halves
PlaybackSpeeds == {1, 2, 4}

\* loadReplay(data)
loadReplay(p, data) ==
    [p EXCEPT !.replayData = <<data>>, !.currentFrame = 0, !.inputIndex = 0,
              !.isPlaying = FALSE, !.isPaused = FALSE, !.speed = 2]

\* startPlayback(onInput, onComplete)
startPlayback(p) ==
    IF p.replayData = Null THEN p
    ELSE [p EXCEPT !.hasCallbacks = TRUE, !.currentFrame = 0, !.inputIndex = 0,
                   !.isPlaying = TRUE, !.isPaused = FALSE]

\* The inputs one processFrame() call delivers to onInput.  The loop of lines
\* 275-286 returns from inside its body, so it delivers at most the first input
\* whose frame is the current frame.
DueInputs(p) ==
    LET inputs == p.replayData[1].inputs
    IN  IF p.inputIndex < Len(inputs) /\ inputs[p.inputIndex + 1].frame = p.currentFrame
        THEN <<inputs[p.inputIndex + 1]>>
        ELSE <<>>

\* processFrame() without the test of isPaused
processFrameWhilePaused(p) ==
    IF p.replayData = Null \/ ~p.isPlaying
    THEN [player |-> p, delivered |-> <<>>]
    ELSE [player |-> [p EXCEPT !.inputIndex = @ + Len(DueInputs(p))],
          delivered |-> IF p.hasCallbacks
                        THEN [i \in 1..Len(DueInputs(p)) |->
                                 DIRECTION_VECTORS(DueInputs(p)[i].direction)]
                        ELSE <<>>]

\* processFrame(): the player afterwards and the directions passed to onInput
processFrame(p) ==
    IF p.replayData = Null \/ ~p.isPlaying \/ p.isPaused
    THEN [player |-> p, delivered |-> <<>>]
    ELSE [player |-> [p EXCEPT !.inputIndex = @ + Len(DueInputs(p))],
          delivered |-> IF p.hasCallbacks
                        THEN [i \in 1..Len(DueInputs(p)) |->
                                 DIRECTION_VECTORS(DueInputs(p)[i].direction)]
                        ELSE <<>>]

\* ReplayPlayer.advanceFrame()
playerAdvanceFrame(p) ==
    IF ~p.isPlaying \/ p.isPaused THEN p ELSE [p EXCEPT !.currentFrame = @ + 1]

\* checkComplete()
checkComplete(p) ==
    IF p.replayData = Null THEN TRUE ELSE p.inputIndex >= Len(p.replayData[1].inputs)

\* togglePause()
togglePause(p) == [p EXCEPT !.isPaused = ~@]

\* setSpeed(speed)
setSpeed(p, speed) == [p EXCEPT !.speed = speed]

\* skipToEnd() delivering only the next input
skipToEndAfterOneInput(p) ==
    IF p.replayData = Null \/ ~p.isPlaying
    THEN [player |-> p, delivered |-> <<>>, completed |-> FALSE]
    ELSE LET inputs == p.replayData[1].inputs
         IN  [player |-> [p EXCEPT !.inputIndex = IF @ < Len(inputs) THEN Len(inputs) ELSE @,
                                   !.isPlaying = FALSE],
              delivered |-> IF p.hasCallbacks /\ p.inputIndex < Len(inputs)
                            THEN <<DIRECTION_VECTORS(inputs[p.inputIndex + 1].direction)>>
                            ELSE <<>>,
              completed |-> p.hasCallbacks]

\* skipToEnd(): the player afterwards, the directions passed to onInput, and
\* whether onComplete was called
skipToEnd(p) ==
    IF p.replayData = Null \/ ~p.isPlaying
    THEN [player |-> p, delivered |-> <<>>, completed |-> FALSE]
    ELSE LET inputs == p.replayData[1].inputs
         IN  [player |-> [p EXCEPT !.inputIndex = IF @ < Len(inputs) THEN Len(inputs) ELSE @,
                                   !.isPlaying = FALSE],
              delivered |-> IF p.hasCallbacks
                            THEN [i \in 1..(Len(inputs) - p.inputIndex) |->
                                     DIRECTION_VECTORS(inputs[p.inputIndex + i].direction)]
                            ELSE <<>>,
              completed |-> p.hasCallbacks]

\* stopPlayback()
stopPlayback(p) ==
    [p EXCEPT !.isPlaying = FALSE, !.isPaused = FALSE, !.currentFrame = 0, !.inputIndex = 0]

(***************************************************************************)
(* SpecReplay: one recorder records sessions; the last log it returned is  *)
(* loaded into one player, which is then driven by any sequence of calls.  *)
(* calls holds what the callbacks given to the last startPlayback saw      *)
(* (seq: each onInput direction with getCurrentFrame() at that moment;     *)
(* completes: the onComplete calls), the last player call (last, with the  *)
(* inputIndex before it), and drive: whether playback has so far been driven   *)
(* by processFrame() then advanceFrame(), once per frame, and which of the *)
(* two comes next.  rec.offered lists the named vectors given to           *)
(* recordInput since the last startRecording, each with rec.advances, the  *)
(* number of advanceFrame calls made since that startRecording, as it was  *)
(* then; rec.restarted tells that a startRecording came after inputs had   *)
(* been recorded.                                                          *)
(***************************************************************************)
MaxFrames == 2
MaxInputs == 3

ReplayFrame == UNCHANGED <<rngs, snake, snakeLog, food, store, share, game, pilot, tape, manager>>

\* the vectors offered to recordInput: two directions and a vector with no name
RecorderVectors == {UP, LEFT, Pt(0, 0)}

NoCalls ==
    [seq |-> <<>>, completes |-> 0, last |-> "none", before |-> 0, drive |-> "none"]

ReplayInit ==
    /\ rec = [obj |-> NewRecorder, log |-> Null, advances |-> 0, offered |-> <<>>,
              restarted |-> FALSE]
    /\ player = NewPlayer
    /\ calls = NoCalls

RecStart(seed, now) ==
    /\ rec.log = Null
    /\ rec' = [rec EXCEPT !.obj = startRecording(rec.obj, seed, GridWidth, GridHeight,
                                                 NewSnake(GridWidth, GridHeight).segments,
                                                 RIGHT, 75, now),
                          !.advances = 0, !.offered = <<>>,
                          !.restarted = @ \/ rec.obj.inputs # <<>>]
    /\ UNCHANGED <<player, calls>>
    /\ ReplayFrame

RecInput(direction) ==
    /\ Len(rec.obj.inputs) < MaxInputs
    /\ rec' = [rec EXCEPT !.obj = recordInput(rec.obj, direction),
                          !.offered = IF rec.obj.isRecording /\ VECTOR_TO_DIRECTION(direction) # Null
                                      THEN Append(@, [direction |-> direction,
                                                      advances |-> rec.advances])
                                      ELSE @]
    /\ UNCHANGED <<player, calls>>
    /\ ReplayFrame

RecAdvance ==
    /\ rec.obj.currentFrame < MaxFrames
    /\ rec' = [rec EXCEPT !.obj = recorderAdvanceFrame(rec.obj),
                          !.advances = IF rec.obj.isRecording THEN @ + 1 ELSE @]
    /\ UNCHANGED <<player, calls>>
    /\ ReplayFrame

RecStop(finalScore) ==
    /\ rec.obj.isRecording
    /\ rec' = [rec EXCEPT !.obj = stopRecording(rec.obj, finalScore).rec,
                          !.log = <<stopRecording(rec.obj, finalScore).data>>]
    /\ UNCHANGED <<player, calls>>
    /\ ReplayFrame

PlayerLoad ==
    /\ rec.log # Null
    /\ player' = loadReplay(player, rec.log[1])
    /\ calls' = [calls EXCEPT !.last = "loadReplay", !.before = player.inputIndex, !.drive = "none"]
    /\ UNCHANGED rec
    /\ ReplayFrame

PlayerStart ==
    /\ player' = startPlayback(player)
    /\ calls' = IF player.replayData = Null THEN calls
                ELSE [seq |-> <<>>, completes |-> 0, last |-> "startPlayback",
                      before |-> player.inputIndex, drive |-> "process"]
    /\ UNCHANGED rec
    /\ ReplayFrame

\* onInput pushes the direction with getCurrentFrame(), as the tests' callbacks do
Seen(p, delivered) == [i \in 1..Len(delivered) |-> [direction |-> delivered[i], frame |-> p.currentFrame]]

PlayerProcessFrame ==
    /\ LET r == processFrame(player)
       IN  /\ player' = r.player
           /\ calls' = [calls EXCEPT !.seq = @ \o Seen(player, r.delivered),
                                     !.last = "processFrame", !.before = player.inputIndex,
                                     !.drive = IF @ = "process" THEN "advance" ELSE "broken"]
    /\ UNCHANGED rec
    /\ ReplayFrame

PlayerAdvanceFrame ==
    /\ player.currentFrame <= MaxFrames
    /\ player' = playerAdvanceFrame(player)
    /\ calls' = [calls EXCEPT !.last = "advanceFrame", !.before = player.inputIndex,
                              !.drive = IF @ = "advance" THEN "process" ELSE "broken"]
    /\ UNCHANGED rec
    /\ ReplayFrame

PlayerTogglePause ==
    /\ player' = togglePause(player)
    /\ calls' = [calls EXCEPT !.last = "togglePause", !.before = player.inputIndex, !.drive = "broken"]
    /\ UNCHANGED rec
    /\ ReplayFrame

PlayerSkipToEnd ==
    /\ LET r == skipToEnd(player)
       IN  /\ player' = r.player
           /\ calls' = [calls EXCEPT !.seq = @ \o Seen(player, r.delivered),
                                     !.completes = @ + (IF r.completed THEN 1 ELSE 0),
                                     !.last = "skipToEnd", !.before = player.inputIndex,
                                     !.drive = "broken"]
    /\ UNCHANGED rec
    /\ ReplayFrame

PlayerStop ==
    /\ player' = stopPlayback(player)
    /\ calls' = [calls EXCEPT !.last = "stopPlayback", !.before = player.inputIndex, !.drive = "broken"]
    /\ UNCHANGED rec
    /\ ReplayFrame

PlayerSetSpeed(speed) ==
    /\ player' = setSpeed(player, speed)
    /\ UNCHANGED <<rec, calls>>
    /\ ReplayFrame

ReplayNext ==
    \/ \E seed \in {12345}, now \in {1000} : RecStart(seed, now)
    \/ \E direction \in RecorderVectors : RecInput(direction)
    \/ RecAdvance
    \/ \E finalScore \in {10} : RecStop(finalScore)
    \/ PlayerLoad
    \/ PlayerStart
    \/ PlayerProcessFrame
    \/ PlayerAdvanceFrame
    \/ PlayerTogglePause
    \/ PlayerSkipToEnd
    \/ PlayerStop
    \/ \E speed \in PlaybackSpeeds : PlayerSetSpeed(speed)

\* what onInput sees when the input is applied at its recorded frame
AsRecorded(input) == [direction |-> DIRECTION_VECTORS(input.direction), frame |-> input.frame]

\* the recorded inputs whose frame is before `frame`, or is `frame` when `through`
RecordedUpTo(inputs, frame, through) ==
    LET Reached(input) == input.frame < frame \/ (through /\ input.frame = frame)
        reached == SelectSeq(inputs, Reached)
    IN  [i \in 1..Len(reached) |-> AsRecorded(reached[i])]

\* C1: while a log returned by the recorder is played by processFrame() then
\* advanceFrame(), once per frame, onInput has been invoked with exactly the
\* recorded directions of the frames played so far, in recorded order, each
\* while getCurrentFrame() was that input's recorded frame.
ReplayFidelity ==
    (player.isPlaying /\ calls.drive \in {"process", "advance"})
        => calls.seq = RecordedUpTo(player.replayData[1].inputs, player.currentFrame,
                                    calls.drive = "advance")

\* the number of inputs from position `from` on whose frame is `frame`
RECURSIVE SharingFrame(_, _, _)
SharingFrame(inputs, from, frame) ==
    IF from <= Len(inputs) /\ inputs[from].frame = frame
    THEN 1 + SharingFrame(inputs, from + 1, frame)
    ELSE 0

\* C2: one processFrame() call of a playing, unpaused player invokes onInput
\* once for every input recorded at the current frame, in recorded order, and
\* leaves the input cursor after the last of them.
ProcessFrameAppliesWholeFrame ==
    (calls.last = "processFrame" /\ player.isPlaying /\ ~player.isPaused)
        => LET inputs == player.replayData[1].inputs
               due == SharingFrame(inputs, calls.before + 1, player.currentFrame)
               seen == Len(calls.seq)
           IN  /\ player.inputIndex = calls.before + due
               /\ seen >= due
               /\ \A i \in 1..due :
                      calls.seq[seen - due + i] = AsRecorded(inputs[calls.before + i])

\* C29: in a log stopRecording returned, the inputs are the named vectors given
\* to recordInput since the last startRecording, in the order of the calls, the
\* frame of each is the number of advanceFrame calls made between that
\* startRecording and its recordInput call, and the frames never decrease; the
\* inputs and the frame count of an earlier session are gone.
LogFramesCountAdvances ==
    rec.log # Null
        => LET inputs == rec.log[1].inputs
           IN  /\ Len(inputs) = Len(rec.offered)
               /\ \A i \in 1..Len(inputs) :
                      /\ <<inputs[i].direction>> = VECTOR_TO_DIRECTION(rec.offered[i].direction)
                      /\ inputs[i].frame = rec.offered[i].advances
               /\ \A i \in 1..(Len(inputs) - 1) : inputs[i].frame <= inputs[i + 1].frame

\* a log of a session begun after inputs had been recorded, with two inputs on
\* one frame and one on a later frame
LogOfSecondSession ==
    /\ rec.log # Null
    /\ rec.restarted
    /\ Len(rec.log[1].inputs) = 3
    /\ rec.log[1].inputs[1].frame = 0
    /\ rec.log[1].inputs[2].frame = 0
    /\ rec.log[1].inputs[3].frame = 2

\* C23: while a log with non-decreasing frames is played unpaused by
\* processFrame() then advanceFrame(), once per frame, no input that is still
\* undelivered has a frame behind the frame cursor, and checkComplete() is true
\* once the frame cursor has passed the last recorded frame.
PlaybackLeavesNothingBehind ==
    (player.isPlaying /\ ~player.isPaused /\ calls.drive \in {"process", "advance"})
        => LET inputs == player.replayData[1].inputs
           IN  /\ \A i \in (player.inputIndex + 1)..Len(inputs) :
                      inputs[i].frame >= player.currentFrame
               /\ (Len(inputs) > 0 /\ player.currentFrame > inputs[Len(inputs)].frame)
                      => checkComplete(player)

\* C31: whatever calls a player has received, it is paused only while it is
\* playing: getIsPaused() implies getIsPlaying().
PausedOnlyWhilePlaying ==
    player.isPaused => player.isPlaying

\* C18: processFrame() and advanceFrame() on a paused player leave the input
\* cursor, the frame cursor and what the callbacks saw as they were, and
\* togglePause() changes only whether the player is paused, so that play
\* resumes from the same cursors.
PausedPlayerStandsStill ==
    [][ /\ (player.isPaused /\ calls'.last \in {"processFrame", "advanceFrame"})
              => /\ player'.inputIndex = player.inputIndex
                 /\ player'.currentFrame = player.currentFrame
                 /\ player'.isPaused
                 /\ calls'.seq = calls.seq
                 /\ calls'.completes = calls.completes
        /\ (player'.isPaused # player.isPaused /\ calls'.last = "togglePause")
              => player' = [player EXCEPT !.isPaused = ~@] ]_vars

\* processFrame() was called on a paused player while an input of the current
\* frame was waiting
PausedWithInputDue ==
    /\ player.isPlaying
    /\ player.isPaused
    /\ calls.last = "processFrame"
    /\ player.inputIndex < Len(player.replayData[1].inputs)
    /\ player.replayData[1].inputs[player.inputIndex + 1].frame = player.currentFrame

\* C19: skipToEnd() on a playing player passes each input not yet delivered to
\* onInput, in recorded order, calls onComplete once and leaves the player not
\* playing; on a player that is not playing it calls nothing.
SkipToEndDeliversTheRest ==
    [][ calls'.last = "skipToEnd"
            => IF player.replayData # Null /\ player.isPlaying
               THEN LET inputs == player.replayData[1].inputs
                    IN  /\ calls'.seq = calls.seq
                              \o [i \in 1..(Len(inputs) - player.inputIndex) |->
                                     [direction |->
                                          DIRECTION_VECTORS(inputs[player.inputIndex + i].direction),
                                      frame |-> player.currentFrame]]
                        /\ calls'.completes = calls.completes + 1
                        /\ ~player'.isPlaying
               ELSE /\ calls'.seq = calls.seq
                    /\ calls'.completes = calls.completes
                    /\ player'.isPlaying = player.isPlaying
                    /\ player'.inputIndex = player.inputIndex ]_vars

\* skipToEnd() has delivered two inputs that were still waiting and completed
\* the playback
SkippedPastTwoInputs ==
    /\ calls.last = "skipToEnd"
    /\ ~player.isPlaying
    /\ calls.completes = 1
    /\ Len(player.replayData[1].inputs) - calls.before >= 2
    /\ Len(calls.seq) >= 2

(***************************************************************************)
(* JavaScript values and the text conversions of ReplayStorage.  A text is *)
(* a sequence of character codes.  A value is a record: t is its type,    *)
(* n the number, s the characters of a string, a the elements of an array  *)
(* or the member values of an object, k the member names of an object in  *)
(* insertion order.  Numbers are integers; strings hold no quote, no      *)
(* backslash and no control character, so none needs a JSON escape.       *)
(***************************************************************************)
\* the texts of the names and words used below
Text ==
    [version |-> <<118, 101, 114, 115, 105, 111, 110>>,
     seed |-> <<115, 101, 101, 100>>,
     gridWidth |-> <<103, 114, 105, 100, 87, 105, 100, 116, 104>>,
     gridHeight |-> <<103, 114, 105, 100, 72, 101, 105, 103, 104, 116>>,
     initialSnake |-> <<105, 110, 105, 116, 105, 97, 108, 83, 110, 97, 107, 101>>,
     initialDirection |-> <<105, 110, 105, 116, 105, 97, 108, 68, 105, 114, 101, 99, 116, 105, 111, 110>>,
     inputs |-> <<105, 110, 112, 117, 116, 115>>,
     finalScore |-> <<102, 105, 110, 97, 108, 83, 99, 111, 114, 101>>,
     timestamp |-> <<116, 105, 109, 101, 115, 116, 97, 109, 112>>,
     speedPercent |-> <<115, 112, 101, 101, 100, 80, 101, 114, 99, 101, 110, 116>>,
     x |-> <<120>>,
     y |-> <<121>>,
     frame |-> <<102, 114, 97, 109, 101>>,
     direction |-> <<100, 105, 114, 101, 99, 116, 105, 111, 110>>,
     up |-> <<117, 112>>,
     down |-> <<100, 111, 119, 110>>,
     left |-> <<108, 101, 102, 116>>,
     right |-> <<114, 105, 103, 104, 116>>,
     true |-> <<116, 114, 117, 101>>,
     false |-> <<102, 97, 108, 115, 101>>,
     null |-> <<110, 117, 108, 108>>]

VNum(n) == [t |-> "num", n |-> n, s |-> <<>>, a |-> <<>>, k |-> <<>>]
VStr(s) == [t |-> "str", n |-> 0, s |-> s, a |-> <<>>, k |-> <<>>]
VArr(a) == [t |-> "arr", n |-> 0, s |-> <<>>, a |-> a, k |-> <<>>]
VObj(k, a) == [t |-> "obj", n |-> 0, s |-> <<>>, a |-> a, k |-> k]
\* true, false and null
VWord(w) == [t |-> w, n |-> 0, s |-> <<>>, a |-> <<>>, k |-> <<>>]

\* value.name: <<member>>, or Null when the object has no such member
Member(v, name) ==
    IF v.t = "obj" /\ \E i \in 1..Len(v.k) : v.k[i] = name
    THEN <<v.a[CHOOSE i \in 1..Len(v.k) : v.k[i] = name]>>
    ELSE Null

\* the concatenation of parts[lo..hi]
RECURSIVE Concat(_, _, _)
Concat(parts, lo, hi) ==
    IF lo > hi THEN <<>>
    ELSE IF lo = hi THEN parts[lo]
    ELSE Concat(parts, lo, (lo + hi) \div 2) \o Concat(parts, (lo + hi) \div 2 + 1, hi)

\* the parts joined by commas
RECURSIVE Join(_, _, _)
Join(parts, lo, hi) ==
    IF lo > hi THEN <<>>
    ELSE IF lo = hi THEN parts[lo]
    ELSE Join(parts, lo, (lo + hi) \div 2) \o <<44>> \o Join(parts, (lo + hi) \div 2 + 1, hi)

RECURSIVE Digits(_)
Digits(n) == IF n < 10 THEN <<48 + n>> ELSE Digits(n \div 10) \o <<48 + (n % 10)>>

\* JSON.stringify(value)
RECURSIVE JSON_stringify(_)
JSON_stringify(v) ==
    CASE v.t = "num" -> IF v.n < 0 THEN <<45>> \o Digits(-v.n) ELSE Digits(v.n)
      [] v.t = "str" -> <<34>> \o v.s \o <<34>>
      [] v.t = "arr" ->
            LET parts == <<>> \o [i \in 1..Len(v.a) |-> JSON_stringify(v.a[i])]
            IN  <<91>> \o Join(parts, 1, Len(parts)) \o <<93>>
      [] v.t = "obj" ->
            LET parts == <<>> \o [i \in 1..Len(v.a) |->
                                     <<34>> \o v.k[i] \o <<34, 58>> \o JSON_stringify(v.a[i])]
            IN  <<123>> \o Join(parts, 1, Len(parts)) \o <<125>>
      [] OTHER -> Text[v.t]

\* A-Z a-z 0-9 - _ . ! ~ * ' ( )
Unreserved(c) ==
    \/ c \in 65..90 \/ c \in 97..122 \/ c \in 48..57
    \/ c \in {45, 95, 46, 33, 126, 42, 39, 40, 41}

HexDigit(d) == IF d < 10 THEN 48 + d ELSE 55 + d
Escape(byte) == <<37, HexDigit(byte \div 16), HexDigit(byte % 16)>>

\* encodeURIComponent(text), for characters below U+0800: the UTF-8 bytes of
\* every character that is not unreserved, each as %XX
encodeURIComponent(text) ==
    LET parts == <<>> \o [i \in 1..Len(text) |->
                     IF Unreserved(text[i]) THEN <<text[i]>>
                     ELSE IF text[i] < 128 THEN Escape(text[i])
                     ELSE Escape(192 + text[i] \div 64) \o Escape(128 + (text[i] % 64))]
    IN  Concat(parts, 1, Len(parts))

\* the base64 alphabet
Base64Char(v) ==
    IF v < 26 THEN 65 + v
    ELSE IF v < 52 THEN 97 + (v - 26)
    ELSE IF v < 62 THEN 48 + (v - 52)
    ELSE IF v = 62 THEN 43 ELSE 47

\* btoa(text) for a text of characters below 256: three bytes to four
\* characters, the last group padded with '='
btoa(text) ==
    LET n == Len(text)
        At(i) == IF i <= n THEN text[i] ELSE 0
    IN  <<>> \o [j \in 1..(4 * ((n + 2) \div 3)) |->
            LET g == 3 * ((j - 1) \div 4)
                r == (j - 1) % 4
            IN  IF r = 0 THEN Base64Char(At(g + 1) \div 4)
                ELSE IF r = 1 THEN Base64Char((At(g + 1) % 4) * 16 + At(g + 2) \div 16)
                ELSE IF r = 2
                     THEN IF g + 2 > n THEN 61
                          ELSE Base64Char((At(g + 2) % 16) * 4 + At(g + 3) \div 64)
                ELSE IF g + 3 > n THEN 61 ELSE Base64Char(At(g + 3) % 64)]

\* the value of a base64 character, -1 for any other character
Base64Value(c) ==
    IF c \in 65..90 THEN c - 65
    ELSE IF c \in 97..122 THEN c - 97 + 26
    ELSE IF c \in 48..57 THEN c - 48 + 52
    ELSE IF c = 43 THEN 62
    ELSE IF c = 47 THEN 63 ELSE -1

\* atob(text): <<the decoded bytes>>, or Null where atob throws.  ASCII
\* whitespace is dropped, one or two '=' end a text of a multiple of four
\* characters, and spare bits of the last character are discarded.
atob(text) ==
    LET NotSpace(c) == c \notin {9, 10, 12, 13, 32}
        s == SelectSeq(text, NotSpace)
        m == Len(s)
        pad == IF m > 0 /\ m % 4 = 0 /\ s[m] = 61
               THEN IF s[m - 1] = 61 THEN 2 ELSE 1
               ELSE 0
        n == m - pad
    IN  IF n % 4 = 1 \/ \E i \in 1..n : Base64Value(s[i]) < 0
        THEN Null
        ELSE << <<>> \o [j \in 1..((n * 6) \div 8) |->
                   LET g == 4 * ((j - 1) \div 3)
                       r == (j - 1) % 3
                       V(i) == Base64Value(s[g + i])
                   IN  IF r = 0 THEN V(1) * 4 + V(2) \div 16
                       ELSE IF r = 1 THEN (V(2) % 16) * 16 + V(3) \div 4
                       ELSE (V(3) % 4) * 64 + V(4)] >>

\* the value of a hexadecimal digit, -1 for any other character
HexValue(c) ==
    IF c \in 48..57 THEN c - 48
    ELSE IF c \in 65..70 THEN c - 55
    ELSE IF c \in 97..102 THEN c - 87 ELSE -1

\* decodeURIComponent(text), for characters below U+0800: <<the decoded
\* text>>, or Null where it throws URIError (a '%' without two hexadecimal
\* digits, or escaped bytes that are not UTF-8)
decodeURIComponent(text) ==
    LET n == Len(text)
        IsEscape(i) == i >= 1 /\ i <= n /\ text[i] = 37
        WellFormed(i) == i + 2 <= n /\ HexValue(text[i + 1]) >= 0 /\ HexValue(text[i + 2]) >= 0
        ByteAt(i) == 16 * HexValue(text[i + 1]) + HexValue(text[i + 2])
        IsTail(i) == IsEscape(i) /\ ByteAt(i) \in 128..191
        IsLead(i) == IsEscape(i) /\ ByteAt(i) \in 194..223
    IN  IF \E i \in 1..n : IsEscape(i) /\ ~WellFormed(i)
        THEN Null
        ELSE IF \E i \in 1..n :
                    /\ IsEscape(i)
                    /\ ByteAt(i) >= 128
                    /\ ~(IsLead(i) /\ IsTail(i + 3))
                    /\ ~(IsTail(i) /\ IsLead(i - 3))
        THEN Null
        ELSE LET parts == <<>> \o [i \in 1..n |->
                     IF IsEscape(i)
                     THEN IF ByteAt(i) < 128 THEN <<ByteAt(i)>>
                          ELSE IF IsLead(i) THEN <<(ByteAt(i) - 192) * 64 + (ByteAt(i + 3) - 128)>>
                          ELSE <<>>
                     ELSE IF IsEscape(i - 1) \/ IsEscape(i - 2) THEN <<>>
                     ELSE <<text[i]>>]
             IN  <<Concat(parts, 1, n)>>

(***************************************************************************)
(* JSON.parse, by recursive descent.  A step returns ok, the value read   *)
(* and the position after it.                                              *)
(***************************************************************************)
Fail == [ok |-> FALSE, v |-> VWord("null"), pos |-> 0]
Ok(v, pos) == [ok |-> TRUE, v |-> v, pos |-> pos]

\* the first position from i on that holds no JSON white space
SkipSpace(text, i) ==
    IF \E j \in i..Len(text) : text[j] \notin {9, 10, 13, 32}
    THEN CHOOSE j \in i..Len(text) :
             text[j] \notin {9, 10, 13, 32} /\ \A h \in i..(j - 1) : text[h] \in {9, 10, 13, 32}
    ELSE Len(text) + 1

\* the first position from i on that holds c, Len(text) + 1 when there is none
Find(text, i, c) ==
    IF \E j \in i..Len(text) : text[j] = c
    THEN CHOOSE j \in i..Len(text) : text[j] = c /\ \A h \in i..(j - 1) : text[h] # c
    ELSE Len(text) + 1

\* the first position from i on that holds no digit
SkipDigits(text, i) ==
    IF \E j \in i..Len(text) : text[j] \notin 48..57
    THEN CHOOSE j \in i..Len(text) : text[j] \notin 48..57 /\ \A h \in i..(j - 1) : text[h] \in 48..57
    ELSE Len(text) + 1

RECURSIVE NumberValue(_, _, _)
NumberValue(text, lo, hi) ==
    IF lo > hi THEN 0 ELSE NumberValue(text, lo, hi - 1) * 10 + (text[hi] - 48)

\* a number at i: an optional '-', then 0 or digits not starting with 0.  A
\* fraction, an exponent or more than nine digits is outside the integers
\* of the model and is refused.
ParseNumber(text, i) ==
    LET first == IF text[i] = 45 THEN i + 1 ELSE i
        end == SkipDigits(text, first)
    IN  IF \/ end = first
           \/ (text[first] = 48 /\ end > first + 1)
           \/ end - first > 9
           \/ (end <= Len(text) /\ text[end] \in {46, 69, 101})
        THEN Fail
        ELSE Ok(VNum(IF first > i THEN -NumberValue(text, first, end - 1)
                     ELSE NumberValue(text, first, end - 1)), end)

\* a string at i, where text[i] is the opening quote; a backslash or a control
\* character inside is refused
ParseString(text, i) ==
    LET end == Find(text, i + 1, 34)
    IN  IF end > Len(text) \/ \E h \in (i + 1)..(end - 1) : text[h] = 92 \/ text[h] < 32
        THEN Fail
        ELSE Ok(VStr(SubSeq(text, i + 1, end - 1)), end + 1)

\* true, false or null at i
ParseWord(text, i) ==
    IF \E w \in {"true", "false", "null"} :
           /\ i + Len(Text[w]) - 1 <= Len(text)
           /\ SubSeq(text, i, i + Len(Text[w]) - 1) = Text[w]
    THEN LET w == CHOOSE w \in {"true", "false", "null"} :
                      /\ i + Len(Text[w]) - 1 <= Len(text)
                      /\ SubSeq(text, i, i + Len(Text[w]) - 1) = Text[w]
         IN  Ok(VWord(w), i + Len(Text[w]))
    ELSE Fail

\* the object with member name set to v: a repeated name keeps its place
Put(obj, name, v) ==
    IF \E i \in 1..Len(obj.k) : obj.k[i] = name
    THEN [obj EXCEPT !.a[CHOOSE i \in 1..Len(obj.k) : obj.k[i] = name] = v]
    ELSE [obj EXCEPT !.k = Append(@, name), !.a = Append(@, v)]

RECURSIVE ParseValue(_, _), ParseElements(_, _, _), ParseMembers(_, _, _)

\* the value at i, where i holds no white space
ParseValue(text, i) ==
    IF i > Len(text) THEN Fail
    ELSE IF text[i] = 123
    THEN IF SkipSpace(text, i + 1) <= Len(text) /\ text[SkipSpace(text, i + 1)] = 125
         THEN Ok(VObj(<<>>, <<>>), SkipSpace(text, i + 1) + 1)
         ELSE ParseMembers(text, SkipSpace(text, i + 1), VObj(<<>>, <<>>))
    ELSE IF text[i] = 91
    THEN IF SkipSpace(text, i + 1) <= Len(text) /\ text[SkipSpace(text, i + 1)] = 93
         THEN Ok(VArr(<<>>), SkipSpace(text, i + 1) + 1)
         ELSE ParseElements(text, SkipSpace(text, i + 1), <<>>)
    ELSE IF text[i] = 34 THEN ParseString(text, i)
    ELSE IF text[i] = 45 \/ text[i] \in 48..57 THEN ParseNumber(text, i)
    ELSE ParseWord(text, i)

\* an array after its element e was read: a comma and more elements, or ']'
AfterElement(text, acc, e) ==
    LET next == SkipSpace(text, e.pos)
    IN  IF ~e.ok \/ next > Len(text) THEN Fail
        ELSE IF text[next] = 44
        THEN ParseElements(text, SkipSpace(text, next + 1), Append(acc, e.v))
        ELSE IF text[next] = 93 THEN Ok(VArr(Append(acc, e.v)), next + 1)
        ELSE Fail

\* the elements of an array from i on, after the elements of acc
ParseElements(text, i, acc) ==
    CHOOSE out \in {AfterElement(text, acc, e) : e \in {ParseValue(text, i)}} : TRUE

\* an object after the value e of its member name was read: a comma and more
\* members, or '}'
AfterMember(text, obj, name, e) ==
    LET next == SkipSpace(text, e.pos)
    IN  IF ~e.ok \/ next > Len(text) THEN Fail
        ELSE IF text[next] = 44
        THEN ParseMembers(text, SkipSpace(text, next + 1), Put(obj, name, e.v))
        ELSE IF text[next] = 125 THEN Ok(Put(obj, name, e.v), next + 1)
        ELSE Fail

\* an object after the name s of a member was read: a colon and the value
AfterName(text, obj, s) ==
    LET colon == SkipSpace(text, s.pos)
    IN  IF ~s.ok \/ colon > Len(text) \/ text[colon] # 58 THEN Fail
        ELSE CHOOSE out \in
                 { AfterMember(text, obj, s.v.s, e) :
                   e \in {ParseValue(text, SkipSpace(text, colon + 1))} } : TRUE

\* the members of an object from i on, added to obj
ParseMembers(text, i, obj) ==
    IF i > Len(text) \/ text[i] # 34 THEN Fail
    ELSE CHOOSE out \in {AfterName(text, obj, s) : s \in {ParseString(text, i)}} : TRUE

\* JSON.parse(text): <<the value>>, or Null where it throws SyntaxError
JSON_parse(text) ==
    CHOOSE out \in
        { IF r.ok /\ SkipSpace(text, r.pos) > Len(text) THEN <<r.v>> ELSE Null :
          r \in {ParseValue(text, SkipSpace(text, 1))} } : TRUE

(***************************************************************************)
(* ReplayStorage.exportReplay and importReplay, and a log as the object   *)
(* the recorder builds.                                                    *)
(***************************************************************************)
PointValue(p) == VObj(<<Text.x, Text.y>>, <<VNum(p.x), VNum(p.y)>>)

InputValue(input) ==
    VObj(<<Text.frame, Text.direction>>, <<VNum(input.frame), VStr(Text[input.direction])>>)

\* the object literal of stopRecording, members in its order
ReplayDataValue(data) ==
    VObj(<<Text.version, Text.seed, Text.gridWidth, Text.gridHeight, Text.initialSnake,
           Text.initialDirection, Text.inputs, Text.finalScore, Text.timestamp,
           Text.speedPercent>>,
         <<VNum(data.version), VNum(data.seed), VNum(data.gridWidth), VNum(data.gridHeight),
           VArr([i \in 1..Len(data.initialSnake) |-> PointValue(data.initialSnake[i])]),
           PointValue(data.initialDirection),
           VArr([i \in 1..Len(data.inputs) |-> InputValue(data.inputs[i])]),
           VNum(data.finalScore), VNum(data.timestamp), VNum(data.speedPercent)>>)

\* exportReplay(data)
exportReplay(data) ==
    CHOOSE out \in {btoa(uri) : uri \in {encodeURIComponent(json) :
                                         json \in {JSON_stringify(data)}}} : TRUE

\* typeof value.name === 'number'
IsNumber(v, name) == Member(v, name) # Null /\ Member(v, name)[1].t = "num"

\* Array.isArray(value.name)
IsArray(v, name) == Member(v, name) # Null /\ Member(v, name)[1].t = "arr"

\* the checks of importReplay without the check of seed
ValidateWithoutSeed(parsed) ==
    IF parsed = Null \/ parsed[1].t = "null" THEN Null
    ELSE IF \/ ~IsNumber(parsed[1], Text.version)
            \/ ~IsArray(parsed[1], Text.inputs)
            \/ ~IsArray(parsed[1], Text.initialSnake)
    THEN Null
    ELSE parsed

\* the checks of importReplay on the parsed value; reading a property of null
\* throws, and the catch returns null
Validate(parsed) ==
    IF parsed = Null \/ parsed[1].t = "null" THEN Null
    ELSE IF \/ ~IsNumber(parsed[1], Text.version)
            \/ ~IsNumber(parsed[1], Text.seed)
            \/ ~IsArray(parsed[1], Text.inputs)
            \/ ~IsArray(parsed[1], Text.initialSnake)
    THEN Null
    ELSE parsed

DecodeAndParse(bytes) ==
    IF bytes = Null THEN Null
    ELSE CHOOSE out \in {IF json = Null THEN Null ELSE JSON_parse(json[1]) :
                         json \in {decodeURIComponent(bytes[1])}} : TRUE

\* importReplay parsing the decoded bytes without decodeURIComponent
importReplayWithoutDecode(encoded) ==
    CHOOSE out \in {Validate(parsed) :
                    parsed \in {IF bytes = Null THEN Null ELSE JSON_parse(bytes[1]) :
                                bytes \in {atob(encoded)}}} : TRUE

\* importReplay(encoded): <<the data>>, or Null for null
importReplay(encoded) ==
    CHOOSE out \in {Validate(parsed) : parsed \in {DecodeAndParse(bytes) :
                                                   bytes \in {atob(encoded)}}} : TRUE

\* the exception the catch block of importReplay(encoded) catches, "none" when
\* the try block throws nothing
importReplayCaught(encoded) ==
    CHOOSE out \in
        { IF bytes = Null THEN "InvalidCharacterError"
          ELSE IF decodeURIComponent(bytes[1]) = Null THEN "URIError"
          ELSE IF DecodeAndParse(bytes) = Null THEN "SyntaxError"
          ELSE IF DecodeAndParse(bytes)[1].t = "null" THEN "TypeError"
          ELSE "none" :
          bytes \in {atob(encoded)} } : TRUE

(***************************************************************************)
(* ReplayStorage over localStorage.  ls.env tells whether localStorage is  *)
(* defined and whether setItem throws (the quota is used up); ls.items     *)
(* maps a key to <<the text stored>>, or to Null.                          *)
(***************************************************************************)
\* Game.highScoreKey, a key of the same localStorage
highScoreKey == "vibe-snake-high-score"

LAST_REPLAY_KEY == "vibe-snake-last-replay"
HIGH_SCORE_REPLAY_KEY == "vibe-snake-high-score-replay"
REPLAY_HISTORY_KEY == "vibe-snake-replay-history"

StorageKeys == {LAST_REPLAY_KEY, HIGH_SCORE_REPLAY_KEY, REPLAY_HISTORY_KEY, highScoreKey}

\* an empty localStorage in environment env
NewStorage(env) == [env |-> env, items |-> [key \in StorageKeys |-> Null]]

\* whether setItem throws: the quota is used up, or access is denied
setItemThrows(ls) == ls.env \in {"full", "denied"}

\* localStorage.setItem writing where it should throw
setItemDespiteQuota(ls, key, text) == [ls EXCEPT !.items[key] = <<text>>]

\* localStorage.setItem(key, text); where it throws, every caller catches that
\* and only warns
setItem(ls, key, text) ==
    IF setItemThrows(ls) THEN ls ELSE [ls EXCEPT !.items[key] = <<text>>]

\* localStorage.removeItem(key); where access is denied it throws
removeItem(ls, key) ==
    IF ls.env = "denied" THEN ls ELSE [ls EXCEPT !.items[key] = Null]

\* JSON.parse(localStorage.getItem(key)): <<the value>>, or Null when getItem
\* throws, nothing or the empty text is stored or the text does not parse
ParseItem(ls, key) ==
    IF ls.env = "denied" \/ ls.items[key] = Null \/ ls.items[key][1] = <<>> THEN Null
    ELSE JSON_parse(ls.items[key][1])

\* saveLastReplay(data)
saveLastReplay(ls, data) ==
    IF ls.env = "undefined" THEN ls
    ELSE setItem(ls, LAST_REPLAY_KEY, JSON_stringify(data))

\* loadLastReplay(): <<the value>>, or Null for null
loadLastReplay(ls) ==
    IF ls.env = "undefined" THEN Null
    ELSE CHOOSE out \in {IF v # Null /\ v[1].t = "null" THEN Null ELSE v :
                         v \in {ParseItem(ls, LAST_REPLAY_KEY)}} : TRUE

\* loadHighScoreReplay(): <<the value>>, or Null for null
loadHighScoreReplay(ls) ==
    IF ls.env = "undefined" THEN Null
    ELSE CHOOSE out \in {IF v # Null /\ v[1].t = "null" THEN Null ELSE v :
                         v \in {ParseItem(ls, HIGH_SCORE_REPLAY_KEY)}} : TRUE

\* whether a value is truthy
Truthy(v) ==
    CASE v.t = "num" -> v.n # 0
      [] v.t = "str" -> v.s # <<>>
      [] v.t \in {"null", "false"} -> FALSE
      [] OTHER -> TRUE

\* existing && existing.finalScore >= data.finalScore, for numeric scores
KeepsExisting(existing, data) ==
    /\ existing # Null
    /\ Truthy(existing[1])
    /\ Member(existing[1], Text.finalScore) # Null
    /\ Member(existing[1], Text.finalScore)[1].t = "num"
    /\ Member(data, Text.finalScore) # Null
    /\ Member(existing[1], Text.finalScore)[1].n >= Member(data, Text.finalScore)[1].n

\* saveHighScoreReplay(data) keeping the stored log only when its score is
\* greater
saveHighScoreReplayUnlessLower(ls, data) ==
    IF ls.env = "undefined" THEN [ls |-> ls, ret |-> FALSE]
    ELSE IF /\ KeepsExisting(loadHighScoreReplay(ls), data)
            /\ Member(loadHighScoreReplay(ls)[1], Text.finalScore) # Member(data, Text.finalScore)
    THEN [ls |-> ls, ret |-> FALSE]
    ELSE [ls |-> setItem(ls, HIGH_SCORE_REPLAY_KEY, JSON_stringify(data)),
          ret |-> ~setItemThrows(ls)]

\* saveHighScoreReplay(data): the storage afterwards and the value returned
saveHighScoreReplay(ls, data) ==
    IF ls.env = "undefined" THEN [ls |-> ls, ret |-> FALSE]
    ELSE IF KeepsExisting(loadHighScoreReplay(ls), data) THEN [ls |-> ls, ret |-> FALSE]
    ELSE [ls |-> setItem(ls, HIGH_SCORE_REPLAY_KEY, JSON_stringify(data)),
          ret |-> ~setItemThrows(ls)]

\* loadReplayHistory(): the array stored, [] when there is none
loadReplayHistory(ls) ==
    IF ls.env = "undefined" THEN <<>>
    ELSE CHOOSE out \in {IF v # Null /\ v[1].t = "arr" THEN v[1].a ELSE <<>> :
                         v \in {ParseItem(ls, REPLAY_HISTORY_KEY)}} : TRUE

\* saveReplayToHistory(data): [data, ...history].slice(0, 10)
saveReplayToHistory(ls, data) ==
    IF ls.env = "undefined" THEN ls
    ELSE CHOOSE out \in
             { setItem(ls, REPLAY_HISTORY_KEY,
                       JSON_stringify(VArr(SubSeq(<<data>> \o history, 1,
                                                  Min(Len(history) + 1, 10))))) :
               history \in {loadReplayHistory(ls)} } : TRUE

\* deleteReplayFromHistory(index) taking index to count from 1
deleteReplayFromHistoryFromOne(ls, index) ==
    IF ls.env = "undefined" THEN ls
    ELSE CHOOSE out \in
             { IF index < 1 \/ index > Len(history) THEN ls
               ELSE setItem(ls, REPLAY_HISTORY_KEY,
                            JSON_stringify(VArr(SubSeq(history, 1, index - 1)
                                                \o SubSeq(history, index + 1, Len(history))))) :
               history \in {loadReplayHistory(ls)} } : TRUE

\* deleteReplayFromHistory(index): the history without its entry at index
\* (counted from 0) is written back; nothing is written for an index outside
\* the history
deleteReplayFromHistory(ls, index) ==
    IF ls.env = "undefined" THEN ls
    ELSE CHOOSE out \in
             { IF index < 0 \/ index >= Len(history) THEN ls
               ELSE setItem(ls, REPLAY_HISTORY_KEY,
                            JSON_stringify(VArr(SubSeq(history, 1, index)
                                                \o SubSeq(history, index + 2, Len(history))))) :
               history \in {loadReplayHistory(ls)} } : TRUE

\* clearReplayHistory(): the history key is removed
clearReplayHistory(ls) ==
    IF ls.env = "undefined" THEN ls ELSE removeItem(ls, REPLAY_HISTORY_KEY)

(***************************************************************************)
(* SpecStorage: the ReplayStorage calls on one localStorage.  store.saves  *)
(* counts the saveReplayToHistory calls; the log given to the k-th call    *)
(* is HistoryLog(k), so every log saved to the history is distinct.        *)
(* store.ret is the value the last call returned.                          *)
(***************************************************************************)
MaxSaves == 11

StorageFrame == UNCHANGED <<rngs, snake, snakeLog, food, rec, player, calls, share, game, pilot, tape, manager>>

\* the sampleReplay of the storage tests, with the given score and timestamp
SampleReplay(finalScore, timestamp) ==
    [version |-> 1, seed |-> 12345, gridWidth |-> GridWidth, gridHeight |-> GridHeight,
     initialSnake |-> <<Pt(5, 5)>>, initialDirection |-> RIGHT,
     inputs |-> <<[frame |-> 0, direction |-> "up"]>>, finalScore |-> finalScore,
     timestamp |-> timestamp, speedPercent |-> 75]

\* the log given to the k-th saveReplayToHistory call
HistoryLog(k) == ReplayDataValue(SampleReplay(k - 1, k - 1))

NoReturn == [op |-> "none", value |-> Null]

StorageInit ==
    /\ \E env \in {"ok", "undefined"} :
           store = [ls |-> NewStorage(env), saves |-> 0, ret |-> NoReturn,
                    before |-> NewStorage(env), arg |-> 0]

\* the quota of a defined localStorage is used up: from now on setItem throws
StorageFills ==
    /\ store.ls.env = "ok"
    /\ store' = [store EXCEPT !.ls.env = "full", !.ret = NoReturn,
                              !.before = [store.ls EXCEPT !.env = "full"], !.arg = 0]
    /\ StorageFrame

StorageSaveLast(finalScore) ==
    /\ store' = [store EXCEPT
                    !.ls = saveLastReplay(store.ls, ReplayDataValue(SampleReplay(finalScore, 0))),
                    !.ret = [op |-> "saveLastReplay", value |-> Null],
                    !.before = store.ls, !.arg = finalScore]
    /\ StorageFrame

StorageLoadLast ==
    /\ store' = [store EXCEPT !.ret = [op |-> "loadLastReplay", value |-> loadLastReplay(store.ls)],
                              !.before = store.ls, !.arg = 0]
    /\ StorageFrame

StorageSaveHighScore(finalScore) ==
    /\ \E r \in {saveHighScoreReplay(store.ls, ReplayDataValue(SampleReplay(finalScore, 0)))} :
           store' = [store EXCEPT !.ls = r.ls,
                                  !.ret = [op |-> "saveHighScoreReplay", value |-> <<r.ret>>],
                                  !.before = store.ls, !.arg = finalScore]
    /\ StorageFrame

StorageLoadHighScore ==
    /\ store' = [store EXCEPT !.ret = [op |-> "loadHighScoreReplay",
                                       value |-> loadHighScoreReplay(store.ls)],
                              !.before = store.ls, !.arg = 0]
    /\ StorageFrame

StorageSaveToHistory ==
    /\ store.saves < MaxSaves
    /\ store' = [store EXCEPT !.ls = saveReplayToHistory(store.ls, HistoryLog(store.saves + 1)),
                              !.saves = @ + 1,
                              !.ret = [op |-> "saveReplayToHistory", value |-> Null],
                              !.before = store.ls, !.arg = 0]
    /\ StorageFrame

StorageLoadHistory ==
    /\ store' = [store EXCEPT !.ret = [op |-> "loadReplayHistory",
                                       value |-> loadReplayHistory(store.ls)],
                              !.before = store.ls, !.arg = 0]
    /\ StorageFrame

(***************************************************************************)
(* SpecStorageFaults: the ReplayStorage calls, deleteReplayFromHistory and *)
(* clearReplayHistory among them, on a localStorage that may run out of    *)
(* quota, may deny access, and may hold a text that is no JSON.            *)
(***************************************************************************)
MaxFaultSaves == 3

\* access to a defined localStorage is denied: from now on getItem, setItem
\* and removeItem throw
StorageBlocks ==
    /\ store.ls.env = "ok"
    /\ store' = [store EXCEPT !.ls.env = "denied", !.ret = NoReturn,
                              !.before = [store.ls EXCEPT !.env = "denied"], !.arg = 0]
    /\ StorageFrame

\* the text "{oops", which is no JSON, gets stored under key
StorageCorrupts(key) ==
    /\ store.ls.env = "ok"
    /\ store.ls.items[key] # <<<<123, 111, 111, 112, 115>>>>
    /\ store' = [store EXCEPT !.ls.items[key] = <<<<123, 111, 111, 112, 115>>>>,
                              !.ret = NoReturn,
                              !.before = [store.ls EXCEPT
                                             !.items[key] = <<<<123, 111, 111, 112, 115>>>>],
                              !.arg = 0]
    /\ StorageFrame

StorageDeleteFromHistory(index) ==
    /\ store' = [store EXCEPT !.ls = deleteReplayFromHistory(store.ls, index),
                              !.ret = [op |-> "deleteReplayFromHistory", value |-> Null],
                              !.before = store.ls, !.arg = index]
    /\ StorageFrame

StorageClearHistory ==
    /\ store' = [store EXCEPT !.ls = clearReplayHistory(store.ls),
                              !.ret = [op |-> "clearReplayHistory", value |-> Null],
                              !.before = store.ls, !.arg = 0]
    /\ StorageFrame

StorageFaultsNext ==
    \/ StorageFills
    \/ StorageBlocks
    \/ \E key \in {LAST_REPLAY_KEY, HIGH_SCORE_REPLAY_KEY, REPLAY_HISTORY_KEY} :
           StorageCorrupts(key)
    \/ \E finalScore \in {100} : StorageSaveLast(finalScore)
    \/ StorageLoadLast
    \/ \E finalScore \in {50} : StorageSaveHighScore(finalScore)
    \/ StorageLoadHighScore
    \/ store.saves < MaxFaultSaves /\ StorageSaveToHistory
    \/ StorageLoadHistory
    \/ \E index \in {-1, 0, 1, 2, 5} : StorageDeleteFromHistory(index)
    \/ StorageClearHistory

StorageNext ==
    \/ StorageFills
    \/ \E finalScore \in {100} : StorageSaveLast(finalScore)
    \/ StorageLoadLast
    \/ \E finalScore \in {50, 200} : StorageSaveHighScore(finalScore)
    \/ StorageLoadHighScore
    \/ StorageSaveToHistory
    \/ StorageLoadHistory

\* C9: in a localStorage that takes every write, after n saveReplayToHistory
\* calls loadReplayHistory returns the last min(n, 50) logs saved, the most
\* recent first.
HistoryHoldsLastFifty ==
    store.ls.env = "ok"
        => loadReplayHistory(store.ls) =
               [i \in 1..Min(store.saves, 50) |-> HistoryLog(store.saves + 1 - i)]

\* the finalScore of the high-score log stored in ls, as <<score>>, or Null
\* when no log is stored
StoredScore(ls) ==
    IF ls.items[HIGH_SCORE_REPLAY_KEY] = Null THEN Null
    ELSE Member(JSON_parse(ls.items[HIGH_SCORE_REPLAY_KEY][1])[1], Text.finalScore)

\* C13: saveHighScoreReplay(log) returns true only if no log was stored or
\* log.finalScore is greater than the stored finalScore, and then the log is
\* what is stored; in a localStorage that takes the write it returns true in
\* each of these cases; when it returns false what is stored is unchanged; the
\* stored finalScore never decreases.
HighScoreReplayOnlyImproves ==
    store.ret.op = "saveHighScoreReplay"
        => LET old == StoredScore(store.before)
               better == old = Null \/ store.arg > old[1].n
           IN  /\ store.ret.value = <<TRUE>>
                      => /\ better
                         /\ store.ls.items[HIGH_SCORE_REPLAY_KEY]
                                = <<JSON_stringify(ReplayDataValue(SampleReplay(store.arg, 0)))>>
               /\ (better /\ store.before.env = "ok") => store.ret.value = <<TRUE>>
               /\ store.ret.value = <<FALSE>> => store.ls = store.before
               /\ old # Null
                      => /\ StoredScore(store.ls) # Null
                         /\ StoredScore(store.ls)[1].n >= old[1].n

\* a log whose finalScore equals the stored one was offered and refused
EqualScoreRefused ==
    /\ store.ret = [op |-> "saveHighScoreReplay", value |-> <<FALSE>>]
    /\ store.ls.env = "ok"
    /\ StoredScore(store.before) # Null
    /\ StoredScore(store.before)[1].n = store.arg

\* C14: in a localStorage that takes the write, deleteReplayFromHistory(i)
\* with 0 <= i < length of the history removes the entry at i and keeps the
\* others in their order; with a negative i, an i at or beyond the length, or
\* an empty history, it leaves the history as it was.
DeleteRemovesExactlyOne ==
    (store.ret.op = "deleteReplayFromHistory" /\ store.before.env = "ok")
        => LET old == loadReplayHistory(store.before)
               new == loadReplayHistory(store.ls)
           IN  /\ \A key \in StorageKeys \ {REPLAY_HISTORY_KEY} :
                      store.ls.items[key] = store.before.items[key]
               /\ IF 0 <= store.arg /\ store.arg < Len(old)
                  THEN new = [k \in 1..(Len(old) - 1) |->
                                 IF k <= store.arg THEN old[k] ELSE old[k + 1]]
                  ELSE new = old /\ store.ls = store.before

\* the middle one of three entries has been deleted
MiddleEntryDeleted ==
    /\ store.ret.op = "deleteReplayFromHistory"
    /\ store.before.env = "ok"
    /\ store.arg = 1
    /\ Len(loadReplayHistory(store.before)) = 3
    /\ Len(loadReplayHistory(store.ls)) = 2

\* a text is stored under key that is no JSON
Unparsable(ls, key) == ls.items[key] # Null /\ JSON_parse(ls.items[key][1]) = Null

MaxShareInputs == 2

ShareFrame == UNCHANGED <<rngs, snake, snakeLog, food, rec, player, calls, store, game, pilot, tape, manager>>

\* the input lists a recorder can return with at most n inputs in n frames
RecordedInputs(n) ==
    { inputs \in UNION { [1..len -> [frame : 0..(n - 1), direction : DirectionNames]] :
                         len \in 0..n } :
          \A i \in 1..(Len(inputs) - 1) : inputs[i].frame <= inputs[i + 1].frame }

\* the logs offered to exportReplay
ShareLogs ==
    { [SampleReplay(finalScore, 1000) EXCEPT
           !.seed = seed, !.inputs = inputs,
           !.initialSnake = NewSnake(GridWidth, GridHeight).segments] :
          seed \in Seeds, finalScore \in {10}, inputs \in RecordedInputs(MaxShareInputs) }

\* value with member name set to m, and without member name
WithMember(value, name, m) ==
    [value EXCEPT !.a[CHOOSE i \in 1..Len(value.k) : value.k[i] = name] = m]
WithoutMember(value, name) ==
    LET Keeps(i) == value.k[i] # name
        kept == SelectSeq([i \in 1..Len(value.k) |-> i], Keeps)
    IN  VObj([i \in 1..Len(kept) |-> value.k[kept[i]]], [i \in 1..Len(kept) |-> value.a[kept[i]]])

\* values that are not logs: null, a number, an array, and a log whose
\* version or seed is a string or missing, or whose inputs or initialSnake is
\* an object, a number or missing
ForeignValues ==
    LET log == ReplayDataValue(SampleReplay(10, 1000))
    IN  {VWord("null"), VNum(5), VArr(<<>>)}
        \cup { WithMember(log, name, VStr(<<49>>)) : name \in {Text.version, Text.seed} }
        \cup { WithMember(log, name, m) :
                 name \in {Text.inputs, Text.initialSnake}, m \in {VObj(<<>>, <<>>), VNum(0)} }
        \cup { WithoutMember(log, name) :
                 name \in {Text.version, Text.seed, Text.inputs, Text.initialSnake} }

\* texts that came from elsewhere, by kind: the empty text; "!!!" and "abcde",
\* which are not base64; the base64 of "%", which is no percent-encoding, and
\* of "not json"; and the encodings of the values that are not logs
ForeignTexts ==
    [empty |-> {<<>>},
     base64 |-> {<<33, 33, 33>>, <<97, 98, 99, 100, 101>>},
     json |-> {btoa(<<37>>), btoa(<<110, 111, 116, 32, 106, 115, 111, 110>>)},
     object |-> {exportReplay(v) : v \in ForeignValues}]

ShareInit ==
    /\ \E data \in ShareLogs :
           share = [data |-> ReplayDataValue(data), encoded |-> Null, imported |-> Null,
                    done |-> FALSE, kind |-> "none", caught |-> "none"]

ShareExport ==
    /\ share.encoded = Null
    /\ share' = [share EXCEPT !.encoded = <<exportReplay(share.data)>>, !.kind = "exported"]
    /\ ShareFrame

\* a text comes from elsewhere
ShareReceive(kind, text) ==
    /\ share.encoded = Null
    /\ share' = [share EXCEPT !.encoded = <<text>>, !.kind = kind]
    /\ ShareFrame

ShareImport ==
    /\ share.encoded # Null
    /\ ~share.done
    /\ share' = [share EXCEPT !.imported = importReplay(share.encoded[1]),
                              !.caught = importReplayCaught(share.encoded[1]),
                              !.done = TRUE]
    /\ ShareFrame

ShareNext ==
    \/ ShareExport
    \/ \E kind \in DOMAIN ForeignTexts : \E text \in ForeignTexts[kind] : ShareReceive(kind, text)
    \/ ShareImport

\* the members of a ReplayData
ReplayFields ==
    {Text.version, Text.seed, Text.gridWidth, Text.gridHeight, Text.initialSnake,
     Text.initialDirection, Text.inputs, Text.finalScore, Text.timestamp, Text.speedPercent}

\* C10: importReplay(exportReplay(log)) returns a log, and each of its fields
\* (version, seed, grid size, initial snake and direction, inputs, final score,
\* timestamp, speed) equals that field of the log exported.
ExportImportRoundTrip ==
    (share.done /\ share.kind = "exported")
        => /\ share.imported # Null
           /\ \A name \in ReplayFields :
                  /\ Member(share.imported[1], name) # Null
                  /\ Member(share.imported[1], name) = Member(share.data, name)

\* a log with a negative seed and two inputs has been exported and imported
ImportedNegativeSeedAndInputs ==
    /\ share.done
    /\ share.imported # Null
    /\ Member(share.imported[1], Text.seed)[1].n < 0
    /\ Len(Member(share.imported[1], Text.inputs)[1].a) = 2

\* C11: importReplay returns null for every text that is empty, is not base64,
\* does not decode to JSON, or decodes to a value whose version or seed is not
\* a number or whose inputs or initialSnake is not an array; what the decoding
\* throws is caught inside importReplay.
ImportRejectsForeignText ==
    (share.done /\ share.kind \in DOMAIN ForeignTexts)
        => /\ share.imported = Null
           /\ share.kind = "base64" => share.caught = "InvalidCharacterError"
           /\ share.kind \in {"empty", "json"} => share.caught \in {"URIError", "SyntaxError"}

\* a log whose seed is a string has been imported and refused
ImportedLogWithoutNumericSeed ==
    /\ share.done
    /\ share.kind = "object"
    /\ share.encoded[1]
           = exportReplay(WithMember(ReplayDataValue(SampleReplay(10, 1000)), Text.seed, VStr(<<49>>)))
    /\ share.imported = Null
    /\ share.caught = "none"

(***************************************************************************)
(* SpecialFood, the power-ups, ObstacleManager and AutoPilot, as the Game  *)
(* uses them.  SpecialFood and ObstacleManager draw from Math.random: a    *)
(* call has one outcome for each value it may draw.  Times are not kept:   *)
(* whether a lifetime is over when update() looks is the caller's input.   *)
(***************************************************************************)
PowerUpTypes == {"speed_boost", "slow_motion", "bonus_points", "invincibility"}

\* POWER_UP_CONFIGS[type]
POWER_UP_CONFIGS(type) ==
    CASE type = "speed_boost" -> [duration |-> 5000, pointsBonus |-> 5]
      [] type = "slow_motion" -> [duration |-> 5000, pointsBonus |-> 5]
      [] type = "bonus_points" -> [duration |-> 0, pointsBonus |-> 50]
      [] type = "invincibility" -> [duration |-> 3000, pointsBonus |-> 10]

\* new SpecialFood(gridWidth, gridHeight)
NewSpecialFood(gridWidth, gridHeight) ==
    [x |-> 0, y |-> 0, type |-> "bonus_points", gridWidth |-> gridWidth,
     gridHeight |-> gridHeight, isActive |-> FALSE]

\* spawn(snakeSegments, regularFoodX, regularFoodY): the outcomes when the type
\* drawn is one of types and the cells drawn are among cells.  A draw of a free
\* cell places the food there; when each of the 100 draws is taken, the food
\* stays inactive on the last cell drawn.
specialFoodSpawn(sf, segs, foodX, foodY, types, cells) ==
    IF sf.isActive THEN {sf}
    ELSE { [sf EXCEPT !.type = type, !.x = c.x, !.y = c.y,
                      !.isActive = ~Overlaps(segs, c.x, c.y) /\ ~(c.x = foodX /\ c.y = foodY)] :
           type \in types, c \in cells }

\* despawn()
despawn(sf) == [sf EXCEPT !.isActive = FALSE]

\* update(currentTime), where expired tells whether currentTime - spawnTime has
\* reached SPECIAL_FOOD_LIFETIME
specialFoodUpdate(sf, expired) ==
    IF sf.isActive /\ expired THEN despawn(sf) ELSE sf

\* new ObstacleManager(gridWidth, gridHeight)
NewObstacleManager(gridWidth, gridHeight) ==
    [obstacles |-> <<>>, gridWidth |-> gridWidth, gridHeight |-> gridHeight,
     lastSpawnScore |-> 0, spawnThreshold |-> 100]

\* new Obstacle(config, gridWidth, gridHeight); duration and direction of the
\* config are Null when the config has none
NewObstacle(config) ==
    [x |-> config.position.x, y |-> config.position.y, type |-> config.type,
     duration |-> IF config.type = "temporary"
                  THEN (IF config.duration = Null THEN 50 ELSE config.duration[1])
                  ELSE -1,
     direction |-> IF config.direction = Null THEN Pt(0, 0) ELSE config.direction[1]]

\* Obstacle.update() moving the obstacle also on the tick on which it turns
obstacleUpdateMovesOnBounce(o, gridWidth, gridHeight) ==
    IF o.type = "temporary"
    THEN [obstacle |-> [o EXCEPT !.duration = @ - 1], remove |-> o.duration - 1 <= 0]
    ELSE IF o.type = "moving"
    THEN LET newX == o.x + o.direction.x
             newY == o.y + o.direction.y
             bounceX == newX < 0 \/ newX >= gridWidth
             bounceY == newY < 0 \/ newY >= gridHeight
         IN  [obstacle |-> [o EXCEPT !.x = IF bounceX THEN @ - o.direction.x ELSE newX,
                                     !.y = IF bounceY THEN @ - o.direction.y ELSE newY,
                                     !.direction = Pt(IF bounceX THEN -@.x ELSE @.x,
                                                      IF bounceY THEN -@.y ELSE @.y)],
              remove |-> FALSE]
    ELSE [obstacle |-> o, remove |-> FALSE]

\* Obstacle.update(): the obstacle afterwards and whether it is to be removed
obstacleUpdate(o, gridWidth, gridHeight) ==
    IF o.type = "temporary"
    THEN [obstacle |-> [o EXCEPT !.duration = @ - 1], remove |-> o.duration - 1 <= 0]
    ELSE IF o.type = "moving"
    THEN LET newX == o.x + o.direction.x
             newY == o.y + o.direction.y
             bounceX == newX < 0 \/ newX >= gridWidth
             bounceY == newY < 0 \/ newY >= gridHeight
         IN  [obstacle |-> [o EXCEPT !.x = IF bounceX THEN @ ELSE newX,
                                     !.y = IF bounceY THEN @ ELSE newY,
                                     !.direction = Pt(IF bounceX THEN -@.x ELSE @.x,
                                                      IF bounceY THEN -@.y ELSE @.y)],
              remove |-> FALSE]
    ELSE [obstacle |-> o, remove |-> FALSE]

\* ObstacleManager.update()
obstacleManagerUpdate(om) ==
    LET Stays(o) == ~obstacleUpdate(o, om.gridWidth, om.gridHeight).remove
        kept == SelectSeq(om.obstacles, Stays)
    IN  [om EXCEPT !.obstacles =
            [i \in 1..Len(kept) |-> obstacleUpdate(kept[i], om.gridWidth, om.gridHeight).obstacle]]

\* getObstaclePositions(), as a set
getObstaclePositions(om) == {Pt(om.obstacles[i].x, om.obstacles[i].y) : i \in 1..Len(om.obstacles)}

\* ObstacleManager.checkCollision(position)
obstacleCheckCollision(om, position) == Overlaps(getObstaclePositions(om), position.x, position.y)

\* selectObstacleType(level): the types it may return
ObstacleTypes(level) ==
    IF level < 2 THEN {"static"}
    ELSE IF level < 4 THEN {"static", "temporary"}
    ELSE {"static", "temporary", "moving"}

\* the obstacles new Obstacle(config) may be for a position and a level: a
\* temporary one lasts TEMPORARY_BASE_DURATION plus less than
\* TEMPORARY_DURATION_VARIANCE ticks, a moving one goes one of the four ways
NewObstacles(position, level) ==
    { [x |-> position.x, y |-> position.y, type |-> type,
       duration |-> IF type = "temporary" THEN duration ELSE -1,
       direction |-> IF type = "moving" THEN direction ELSE Pt(0, 0)] :
      type \in ObstacleTypes(level), duration \in {100, 149}, direction \in Vectors }

\* spawnObstacles(snakeSegments, foodPosition), `left` obstacles to go: the
\* managers it may leave when the cells drawn are among cells.  A position is a
\* drawn cell that is free; when each of the 100 draws is taken, none is added.
RECURSIVE SpawnObstacles(_, _, _, _, _, _)
SpawnObstacles(om, segs, foodPosition, level, left, cells) ==
    IF left = 0 THEN {om}
    ELSE LET Occupied(c) == \/ Overlaps(segs, c.x, c.y)
                            \/ (foodPosition.x = c.x /\ foodPosition.y = c.y)
                            \/ Overlaps(getObstaclePositions(om), c.x, c.y)
             added == { [om EXCEPT !.obstacles = Append(@, o)] :
                        o \in UNION { NewObstacles(c, level) : c \in {c \in cells : ~Occupied(c)} } }
             next == added \cup (IF \E c \in cells : Occupied(c) THEN {om} ELSE {})
         IN  UNION { SpawnObstacles(m, segs, foodPosition, level, left - 1, cells) : m \in next }

\* the test of checkSpawn without the comparison with lastSpawnScore
spawnsBatchAtAnyScore(om, score) == score >= om.spawnThreshold

\* the test of checkSpawn: whether a batch is spawned
spawnsBatch(om, score) ==
    LET scoreThreshold == (score \div om.spawnThreshold) * om.spawnThreshold
    IN  scoreThreshold > om.lastSpawnScore /\ score >= om.spawnThreshold

\* the level spawnObstacles works with
spawnLevel(om) == (om.lastSpawnScore \div om.spawnThreshold) + 1

\* checkSpawn(score, snakeSegments, foodPosition): the managers it may leave
checkSpawn(om, score, segs, foodPosition, cells) ==
    LET scoreThreshold == (score \div om.spawnThreshold) * om.spawnThreshold
        level == spawnLevel(om)
    IN  IF spawnsBatch(om, score)
        THEN { [m EXCEPT !.lastSpawnScore = scoreThreshold] :
               m \in SpawnObstacles(om, segs, foodPosition, level, Min(level, 5), cells) }
        ELSE {om}

\* AutoPilot.createGrid(body): whether cell p is walkable
Walkable(p, body, obstaclePositions) ==
    /\ \A i \in 1..(Len(body) - 1) : body[i] # p
    /\ p \notin obstaclePositions

\* AutoPilot.isValid(pos)
IsValid(pos, gridWidth, gridHeight) ==
    pos.x >= 0 /\ pos.x < gridWidth /\ pos.y >= 0 /\ pos.y < gridHeight

\* AutoPilot.getNeighbors(pos) listing right, left, down, up
getNeighborsRightFirst(pos) ==
    <<Pt(pos.x + 1, pos.y), Pt(pos.x - 1, pos.y), Pt(pos.x, pos.y + 1), Pt(pos.x, pos.y - 1)>>

\* AutoPilot.getNeighbors(pos): up, down, left, right
getNeighbors(pos) ==
    <<Pt(pos.x, pos.y - 1), Pt(pos.x, pos.y + 1), Pt(pos.x - 1, pos.y), Pt(pos.x + 1, pos.y)>>

\* AutoPilot.getDirection(from, to), as the vector directionToVector gives
getDirection(from, to) ==
    IF to.x > from.x THEN RIGHT
    ELSE IF to.x < from.x THEN LEFT
    ELSE IF to.y > from.y THEN DOWN
    ELSE UP

\* AutoPilot.bfs taking the newest queue entry first instead of the oldest
RECURSIVE bfsDepthFirst(_, _, _, _, _, _, _)
bfsDepthFirst(queue, visited, target, body, obstaclePositions, gridWidth, gridHeight) ==
    IF queue = <<>> THEN Null
    ELSE IF Head(queue).pos = target THEN <<Head(queue).path>>
    ELSE LET Open(n) == /\ IsValid(n, gridWidth, gridHeight)
                        /\ Walkable(n, body, obstaclePositions)
                        /\ n \notin visited
             found == SelectSeq(getNeighbors(Head(queue).pos), Open)
             pushed == [i \in 1..Len(found) |->
                           [pos |-> found[Len(found) + 1 - i],
                            path |-> Append(Head(queue).path, found[Len(found) + 1 - i])]]
         IN  CHOOSE out \in
                 { bfsDepthFirst(q, v, target, body, obstaclePositions, gridWidth, gridHeight) :
                   q \in {pushed \o Tail(queue)}, v \in {visited \cup Points(found)} } : TRUE

\* AutoPilot.bfs: the queue holds each position with the path to it.  Returns
\* <<path>>, the cells after the start up to the target, or Null when the
\* target is not reached.
RECURSIVE bfs(_, _, _, _, _, _, _)
bfs(queue, visited, target, body, obstaclePositions, gridWidth, gridHeight) ==
    IF queue = <<>> THEN Null
    ELSE IF Head(queue).pos = target THEN <<Head(queue).path>>
    ELSE LET Open(n) == /\ IsValid(n, gridWidth, gridHeight)
                        /\ Walkable(n, body, obstaclePositions)
                        /\ n \notin visited
             found == SelectSeq(getNeighbors(Head(queue).pos), Open)
             pushed == [i \in 1..Len(found) |->
                           [pos |-> found[i], path |-> Append(Head(queue).path, found[i])]]
         IN  CHOOSE out \in
                 { bfs(q, v, target, body, obstaclePositions, gridWidth, gridHeight) :
                   q \in {Tail(queue) \o pushed}, v \in {visited \cup Points(found)} } : TRUE

\* AutoPilot.getValidMoves(start, grid) without the grid's obstacles
getValidMovesThroughObstacles(start, body, obstaclePositions, gridWidth, gridHeight) ==
    LET Free(n) == IsValid(n, gridWidth, gridHeight) /\ Walkable(n, body, {})
    IN  SelectSeq(getNeighbors(start), Free)

\* AutoPilot.getValidMoves(start, grid)
getValidMoves(start, body, obstaclePositions, gridWidth, gridHeight) ==
    LET Free(n) == IsValid(n, gridWidth, gridHeight) /\ Walkable(n, body, obstaclePositions)
    IN  SelectSeq(getNeighbors(start), Free)

\* AutoPilot.getNextMove()
getNextMove(sn, foodPos, obstaclePositions) ==
    LET head == sn.segments[1]
        validMoves == getValidMoves(head, sn.segments, obstaclePositions,
                                    sn.gridWidth, sn.gridHeight)
    IN  CHOOSE out \in
            { IF path # Null /\ Len(path[1]) > 0 THEN getDirection(head, path[1][1])
              ELSE IF Len(validMoves) > 0 THEN getDirection(head, validMoves[1])
              ELSE UP :
              path \in {bfs(<<[pos |-> head, path |-> <<>>]>>, {head}, foodPos, sn.segments,
                            obstaclePositions, sn.gridWidth, sn.gridHeight)} } : TRUE

\* which branch of getNextMove() gives the move: the found path, the first
\* valid neighbour, or up for want of any
getNextMoveBranch(sn, foodPos, obstaclePositions) ==
    LET head == sn.segments[1]
        validMoves == getValidMoves(head, sn.segments, obstaclePositions,
                                    sn.gridWidth, sn.gridHeight)
    IN  CHOOSE out \in
            { IF path # Null /\ Len(path[1]) > 0 THEN "path"
              ELSE IF Len(validMoves) > 0 THEN "fallback"
              ELSE "none" :
              path \in {bfs(<<[pos |-> head, path |-> <<>>]>>, {head}, foodPos, sn.segments,
                            obstaclePositions, sn.gridWidth, sn.gridHeight)} } : TRUE

(***************************************************************************)
(* Game.  The record holds the fields of the Game object and the objects   *)
(* it owns; rng is the one SeededRandom the game and its Food share; ls    *)
(* is localStorage.  loops counts the requestAnimationFrame callbacks and  *)
(* timers the setTimeout callbacks that are pending; screen is the screen  *)
(* of the page that is not hidden and controls tells whether the replay    *)
(* controls are shown.  hung tells that respawn() was still looping when   *)
(* the model stopped following it.                                         *)
(* live and replayed list the head and the food after construction and     *)
(* after every step() of the current live session and of the last replay, *)
(* and saved is what live was when gameOver() last saved a log; steps and  *)
(* keys count the steps made and the keys pressed; lastKey tells whether   *)
(* the last key pressed was an arrow key and how the game stood then;      *)
(* piloted tells, when the last step took its move from the auto-pilot,    *)
(* which branch of getNextMove() gave it and whether the step ended in a   *)
(* collision.                                                              *)
(***************************************************************************)
\* a log as the ReplayData record the player reads, from the parsed value
ReplayDataOf(v) ==
    LET Num(o, name) == Member(o, name)[1].n
        PointOf(o) == Pt(Num(o, Text.x), Num(o, Text.y))
        snakeValues == Member(v, Text.initialSnake)[1].a
        inputValues == Member(v, Text.inputs)[1].a
    IN  [version |-> Num(v, Text.version), seed |-> Num(v, Text.seed),
         gridWidth |-> Num(v, Text.gridWidth), gridHeight |-> Num(v, Text.gridHeight),
         initialSnake |-> [i \in 1..Len(snakeValues) |-> PointOf(snakeValues[i])],
         initialDirection |-> PointOf(Member(v, Text.initialDirection)[1]),
         inputs |-> [i \in 1..Len(inputValues) |->
                        [frame |-> Num(inputValues[i], Text.frame),
                         direction |-> CHOOSE d \in DirectionNames :
                             Text[d] = Member(inputValues[i], Text.direction)[1].s]],
         finalScore |-> Num(v, Text.finalScore), timestamp |-> Num(v, Text.timestamp),
         speedPercent |-> Num(v, Text.speedPercent)]

\* the head and the food, as live and replayed list them
Snapshot(g) == [head |-> g.snake.segments[1], food |-> Pt(g.food.x, g.food.y)]

\* food.respawn(snake.segments, obstacleManager.getObstaclePositions()) with
\* the game's generator
gameRespawn(g) ==
    CHOOSE out \in
        { [g EXCEPT !.food = [r.food EXCEPT !.rng = Null], !.rng = r.food.rng[1],
                    !.hung = ~r.valid] :
          r \in {respawn([g.food EXCEPT !.rng = <<g.rng>>], Points(g.snake.segments),
                         getObstaclePositions(g.obstacleManager))} } : TRUE

\* loadHighScore(): parseInt of the stored text, 0 when there is none
loadHighScore(ls) ==
    IF ls.env = "undefined" \/ ls.items[highScoreKey] = Null \/ ls.items[highScoreKey][1] = <<>>
    THEN 0
    ELSE NumberValue(ls.items[highScoreKey][1], 1, Len(ls.items[highScoreKey][1]))

\* tryUpdateHighScore(), persistHighScore()
tryUpdateHighScore(g) ==
    IF g.score <= g.highScore THEN g
    ELSE [g EXCEPT !.highScore = g.score,
                   !.ls = IF g.ls.env = "undefined" THEN @
                          ELSE setItem(@, highScoreKey, Digits(g.score))]

\* stopReplay()
stopReplay(g) ==
    IF g.isReplayMode
    THEN [g EXCEPT !.replayPlayer = stopPlayback(@), !.isReplayMode = FALSE,
                   !.isRunning = FALSE, !.controls = FALSE]
    ELSE g

\* reset(), when generateSeed() returns seed
reset(g, seed) ==
    gameRespawn([g EXCEPT !.score = 0, !.currentSeed = seed, !.rng = SeededRandom(seed),
                          !.snake = NewSnake(g.gridWidth, g.gridHeight),
                          !.food = NewFood(g.gridWidth, g.gridHeight, Pt(0, 0)),
                          !.obstacleManager = NewObstacleManager(g.gridWidth, g.gridHeight),
                          !.specialFood = NewSpecialFood(g.gridWidth, g.gridHeight),
                          !.activePowerUp = Null, !.piloted = Null])

\* new Game(canvas) for a canvas of gridWidth x gridHeight cells
NewGame(gridWidth, gridHeight, ls, seed) ==
    reset([isRunning |-> FALSE, isPaused |-> FALSE, isAuto |-> FALSE, isReplayMode |-> FALSE,
           score |-> 0, highScore |-> loadHighScore(ls), speedPercent |-> 75,
           gridWidth |-> gridWidth, gridHeight |-> gridHeight, currentSeed |-> 0,
           rng |-> SeededRandom(0), snake |-> NewSnake(gridWidth, gridHeight),
           food |-> NewFood(gridWidth, gridHeight, Pt(0, 0)),
           obstacleManager |-> NewObstacleManager(gridWidth, gridHeight),
           specialFood |-> NewSpecialFood(gridWidth, gridHeight), activePowerUp |-> Null,
           replayRecorder |-> NewRecorder, replayPlayer |-> NewPlayer, ls |-> ls,
           loops |-> 0, timers |-> 0, screen |-> "start", controls |-> FALSE,
           hung |-> FALSE, sessions |-> 0,
           live |-> <<>>, saved |-> <<>>, replayed |-> <<>>, steps |-> 0, keys |-> 0,
           lastKey |-> Null, piloted |-> Null], seed)

\* setSpeed(speedPercent)
gameSetSpeed(g, speedPercent) ==
    [g EXCEPT !.speedPercent = IF speedPercent < 0 THEN 0
                               ELSE IF speedPercent > 100 THEN 100 ELSE speedPercent]

\* start(), when generateSeed() returns seed and Date.now() returns now
start(g, seed, now) ==
    CHOOSE out \in
        { [r EXCEPT !.isRunning = TRUE, !.isPaused = FALSE,
                    !.replayRecorder = startRecording(@, r.currentSeed, r.gridWidth,
                                                      r.gridHeight, r.snake.segments,
                                                      r.snake.direction, r.speedPercent, now),
                    !.loops = @ + 1, !.sessions = @ + 1, !.live = <<Snapshot(r)>>] :
          r \in {reset(stopReplay(g), seed)} } : TRUE

\* handleDirectionInput(direction)
handleDirectionInput(g, direction) ==
    [g EXCEPT !.snake = setDirection(@, direction).snake,
              !.replayRecorder = IF ~g.isReplayMode /\ ~g.isAuto
                                 THEN recordInput(@, direction) ELSE @]

\* toggleAuto()
toggleAuto(g) == [g EXCEPT !.isAuto = ~@]

\* Game.togglePause()
gameTogglePause(g) ==
    IF ~g.isRunning /\ ~g.isPaused THEN g
    ELSE [g EXCEPT !.isPaused = ~@,
                   !.replayPlayer = IF g.isReplayMode THEN togglePause(@) ELSE @,
                   !.loops = IF g.isPaused THEN @ + 1 ELSE @]

Keys == {"ArrowUp", "ArrowDown", "ArrowLeft", "ArrowRight", "a", "p"}

ArrowKeys == {"ArrowUp", "ArrowDown", "ArrowLeft", "ArrowRight"}

\* the keydown listener of bindEvents() without the tests of lines 107 and 108
keydownWhilePaused(g, key) ==
    IF key = "p" THEN (IF g.isRunning \/ g.isPaused THEN gameTogglePause(g) ELSE g)
    ELSE IF g.isReplayMode THEN g
    ELSE IF key \notin ArrowKeys /\ (~g.isRunning \/ g.isPaused) THEN g
    ELSE CASE key = "ArrowUp" -> handleDirectionInput(g, Pt(0, -1))
           [] key = "ArrowDown" -> handleDirectionInput(g, Pt(0, 1))
           [] key = "ArrowLeft" -> handleDirectionInput(g, Pt(-1, 0))
           [] key = "ArrowRight" -> handleDirectionInput(g, Pt(1, 0))
           [] key = "a" -> toggleAuto(g)

\* the keydown listener of bindEvents()
keydown(g, key) ==
    IF key = "p" THEN (IF g.isRunning \/ g.isPaused THEN gameTogglePause(g) ELSE g)
    ELSE IF g.isReplayMode THEN g
    ELSE IF ~g.isRunning \/ g.isPaused THEN g
    ELSE CASE key = "ArrowUp" -> handleDirectionInput(g, Pt(0, -1))
           [] key = "ArrowDown" -> handleDirectionInput(g, Pt(0, 1))
           [] key = "ArrowLeft" -> handleDirectionInput(g, Pt(-1, 0))
           [] key = "ArrowRight" -> handleDirectionInput(g, Pt(1, 0))
           [] key = "a" -> toggleAuto(g)

\* gameOver()
gameOver(g) ==
    CHOOSE out \in
        { [g EXCEPT !.isRunning = FALSE, !.activePowerUp = Null,
                    !.replayRecorder = stopRecording(g.replayRecorder, g.score).rec,
                    !.ls = saveHighScoreReplay(
                               saveReplayToHistory(saveLastReplay(@, replayData), replayData),
                               replayData).ls,
                    !.timers = IF g.isAuto THEN @ + 1 ELSE @,
                    !.screen = IF g.isAuto THEN @ ELSE "game-over", !.saved = g.live] :
          replayData \in {ReplayDataValue(stopRecording(g.replayRecorder, g.score).data)} } : TRUE

\* onReplayComplete()
onReplayComplete(g) ==
    [g EXCEPT !.isRunning = FALSE, !.screen = "replay-complete", !.controls = FALSE]

\* handleWrapAround()
handleWrapAround(g) ==
    LET head == g.snake.segments[1]
        x == IF head.x < 0 THEN g.gridWidth - 1 ELSE IF head.x >= g.gridWidth THEN 0 ELSE head.x
        y == IF head.y < 0 THEN g.gridHeight - 1 ELSE IF head.y >= g.gridHeight THEN 0 ELSE head.y
    IN  [g EXCEPT !.snake.segments[1] = Pt(x, y)]

\* collectSpecialFood()
collectSpecialFood(g) ==
    LET config == POWER_UP_CONFIGS(g.specialFood.type)
        scored == [g EXCEPT !.score = @ + config.pointsBonus]
        counted == IF ~g.isReplayMode THEN tryUpdateHighScore(scored) ELSE scored
    IN  [counted EXCEPT !.activePowerUp = IF config.duration > 0
                                          THEN <<[type |-> g.specialFood.type,
                                                  duration |-> config.duration]>>
                                          ELSE @,
                        !.specialFood = despawn(@)]

\* the snake after the onInput callback of startReplay has seen each direction
RECURSIVE ApplyInputs(_, _, _)
ApplyInputs(sn, delivered, i) ==
    IF i > Len(delivered) THEN sn
    ELSE CHOOSE out \in { ApplyInputs(s, delivered, i + 1) :
                          s \in {setDirection(sn, delivered[i]).snake} } : TRUE

\* lines 299-306 of step(): in a replay the frame's inputs go to the snake and
\* the player's frame count advances, else the recorder's does
stepFrame(g) ==
    IF g.isReplayMode
    THEN CHOOSE out \in
             { [g EXCEPT !.replayPlayer = playerAdvanceFrame(played.player),
                         !.snake = ApplyInputs(@, played.delivered, 1)] :
               played \in {processFrame(g.replayPlayer)} } : TRUE
    ELSE [g EXCEPT !.replayRecorder = recorderAdvanceFrame(@)]

\* lines 308-309 of step(): the obstacles' update
stepObstacles(g) == [g EXCEPT !.obstacleManager = obstacleManagerUpdate(@)]

\* lines 311-319 of step(): the auto-pilot's move, then snake.move()
stepSteer(g) ==
    [g EXCEPT !.snake =
        move(IF g.isAuto /\ ~g.isReplayMode
             THEN setDirection(@, getNextMove(@, Pt(g.food.x, g.food.y),
                                              getObstaclePositions(g.obstacleManager))).snake
             ELSE @),
              !.piloted =
        IF g.isAuto /\ ~g.isReplayMode
        THEN <<[from |-> getNextMoveBranch(g.snake, Pt(g.food.x, g.food.y),
                                           getObstaclePositions(g.obstacleManager)),
                hit |-> FALSE]>>
        ELSE Null]

\* lines 299-319 of step()
stepMove(g) == stepSteer(stepObstacles(stepFrame(g)))

\* the score of a food, the high score updated in a replay too
stepScoreSavedInReplay(g) == tryUpdateHighScore([g EXCEPT !.score = @ + 10])

\* lines 352-356 of step(): the score of a food
stepScore(g) ==
    IF g.isReplayMode THEN [g EXCEPT !.score = @ + 10]
    ELSE tryUpdateHighScore([g EXCEPT !.score = @ + 10])

\* lines 359-369 of step(): the games it may leave, one for each thing
\* Math.random may decide: whether shouldSpawn() is true, the type spawn()
\* draws, and which of cells spawn() and spawnObstacles() draw
stepSpawns(g, cells) ==
    { [g EXCEPT !.specialFood = sf, !.obstacleManager = om] :
      sf \in {g.specialFood} \cup
             specialFoodSpawn(g.specialFood, Points(g.snake.segments), g.food.x, g.food.y,
                              PowerUpTypes, cells),
      om \in checkSpawn(g.obstacleManager, g.score, Points(g.snake.segments),
                        Pt(g.food.x, g.food.y), cells) }

\* lines 349-370 of step(): the food check
stepFood(g, cells) ==
    IF ~(g.snake.segments[1].x = g.food.x /\ g.snake.segments[1].y = g.food.y) THEN {g}
    ELSE UNION { IF fed.hung THEN {fed} ELSE stepSpawns(stepScore(fed), cells) :
                 fed \in {gameRespawn([g EXCEPT !.snake = grow(@)])} }

\* lines 373-377 of step(): the special food check
stepSpecialFood(g) ==
    IF /\ g.specialFood.isActive
       /\ g.snake.segments[1].x = g.specialFood.x
       /\ g.snake.segments[1].y = g.specialFood.y
    THEN collectSpecialFood(g)
    ELSE g

\* the end of a step in which the snake has hit something
stepEnd(g) == IF g.isReplayMode THEN onReplayComplete(g) ELSE gameOver(g)

\* piloted, after a step that a collision ends
Hit(g) == [g EXCEPT !.piloted = IF @ = Null THEN @ ELSE <<[@[1] EXCEPT !.hit = TRUE]>>]

\* live and replayed, after a step
Logged(g) ==
    IF g.isReplayMode
    THEN [g EXCEPT !.replayed = Append(@, Snapshot(g)), !.steps = @ + 1]
    ELSE [g EXCEPT !.live = Append(@, Snapshot(g)), !.steps = @ + 1]

\* lines 322-377 of step(), for the game after snake.move(): a snake that is
\* not invincible ends the step by hitting a wall or itself, an invincible one
\* wraps around; an obstacle ends the step; else the food checks follow
stepChecks(moved, isInvincible, cells) ==
    UNION { IF \/ checkCollision(moved.snake) /\ ~isInvincible
               \/ obstacleCheckCollision(w.obstacleManager, w.snake.segments[1])
            THEN {stepEnd(Logged(Hit(w)))}
            ELSE { Logged(IF fed.hung THEN fed ELSE stepSpecialFood(fed)) :
                   fed \in stepFood(w, cells) } :
            w \in {IF checkCollision(moved.snake) /\ isInvincible
                   THEN handleWrapAround(moved) ELSE moved} }

\* step(): the games it may leave
step(g, cells) ==
    UNION { stepChecks(moved, g.activePowerUp # Null /\ g.activePowerUp[1].type = "invincibility",
                       cells) :
            moved \in {stepMove(g)} }

\* updateActivePowerUp(currentTime), where expired tells whether the power-up's
\* duration has passed
updateActivePowerUp(g, expired) ==
    IF g.activePowerUp # Null /\ expired THEN [g EXCEPT !.activePowerUp = Null] ELSE g

\* lines 249-253 of update(time)
updateTimes(g, t) ==
    updateActivePowerUp([g EXCEPT !.specialFood = specialFoodUpdate(@, t.foodExpired)],
                        t.powerUpExpired)

\* update(time) without the test of isPaused at its first line
updateWhilePaused(g, t, cells) ==
    IF ~g.isRunning THEN {[g EXCEPT !.loops = @ - 1]}
    ELSE { [s EXCEPT !.loops = IF s.hung THEN @ - 1 ELSE @] :
           s \in IF t.stepNow THEN step(updateTimes(g, t), cells) ELSE {updateTimes(g, t)} }

\* update(time), run as a requestAnimationFrame callback that is pending; it
\* requests the next one unless it returns at once.  t holds what the clock
\* decides: whether the special food's lifetime and the power-up's duration
\* have passed and whether dropCounter exceeds the interval.
update(g, t, cells) ==
    IF ~g.isRunning \/ g.isPaused THEN {[g EXCEPT !.loops = @ - 1]}
    ELSE { [s EXCEPT !.loops = IF s.hung THEN @ - 1 ELSE @] :
           s \in IF t.stepNow THEN step(updateTimes(g, t), cells) ELSE {updateTimes(g, t)} }

\* lines 525-552 of startReplay(replayData)
startReplaySetup(g, replayData) ==
    gameRespawn([g EXCEPT !.isReplayMode = TRUE, !.isRunning = TRUE, !.isPaused = FALSE,
                          !.score = 0, !.currentSeed = replayData.seed,
                          !.rng = SeededRandom(replayData.seed),
                          !.snake = [NewSnake(g.gridWidth, g.gridHeight) EXCEPT
                                        !.segments = replayData.initialSnake,
                                        !.direction = replayData.initialDirection,
                                        !.nextDirection = replayData.initialDirection],
                          !.food = NewFood(g.gridWidth, g.gridHeight, Pt(0, 0)),
                          !.obstacleManager = NewObstacleManager(g.gridWidth, g.gridHeight),
                          !.specialFood = NewSpecialFood(g.gridWidth, g.gridHeight),
                          !.activePowerUp = Null,
                          !.screen = IF @ \in {"start", "game-over"} THEN "none" ELSE @,
                          !.controls = TRUE])

\* startReplay(replayData)
startReplay(g, replayData) ==
    CHOOSE out \in
        { [r EXCEPT !.speedPercent = gameSetSpeed(r, replayData.speedPercent).speedPercent,
                    !.replayPlayer = startPlayback(loadReplay(@, replayData)),
                    !.loops = @ + 1, !.replayed = <<Snapshot(r)>>] :
          r \in {startReplaySetup(stopReplay(g), replayData)} } : TRUE

\* watchLastReplay()
watchLastReplay(g) ==
    CHOOSE out \in
        { IF replay # Null /\ Truthy(replay[1]) THEN startReplay(g, ReplayDataOf(replay[1])) ELSE g :
          replay \in {loadLastReplay(g.ls)} } : TRUE

\* Game.skipReplayToEnd(): the player's skipToEnd() with the callbacks of
\* startReplay
skipReplayToEnd(g) ==
    IF ~g.isReplayMode THEN g
    ELSE CHOOSE out \in
             { IF skipped.completed
               THEN onReplayComplete([g EXCEPT !.replayPlayer = skipped.player,
                                               !.snake = ApplyInputs(@, skipped.delivered, 1)])
               ELSE [g EXCEPT !.replayPlayer = skipped.player,
                              !.snake = ApplyInputs(@, skipped.delivered, 1)] :
               skipped \in {skipToEnd(g.replayPlayer)} } : TRUE

\* setReplaySpeed(speed)
setReplaySpeed(g, speed) == [g EXCEPT !.replayPlayer = setSpeed(@, speed)]

\* toggleReplayPause()
toggleReplayPause(g) == IF g.isReplayMode THEN gameTogglePause(g) ELSE g

(***************************************************************************)
(* SpecGame: one Game on a GridWidth x GridHeight canvas with a working,   *)
(* empty localStorage.  The player presses keys and clicks the buttons     *)
(* that are shown, the browser runs the pending animation-frame and timer  *)
(* callbacks, and the clock and Math.random decide what the code leaves to *)
(* them.                                                                   *)
(***************************************************************************)
MaxSteps == 4
MaxKeys == 2
MaxLoops == 1
MaxSessions == 2

GameFrame == UNCHANGED <<rngs, snake, snakeLog, food, rec, player, calls, store, share, pilot, tape, manager>>

\* seeds generateSeed() may return.  With 73 the first food is at (5, 6); with
\* 63453 the foods are at (5, 4), (4, 4) and (4, 6), which leads the auto-pilot
\* into the snake's tail.
GameSeeds == {73, 63453}

\* what the clock may decide in one update(): whether the special food's
\* lifetime and the power-up's duration have passed and whether a step is due
Clock == [stepNow : BOOLEAN, foodExpired : BOOLEAN, powerUpExpired : BOOLEAN]

\* cells the draws of spawn() and spawnObstacles() may hit: one beside a snake
\* that went down from (5, 5), one under the snake
SpawnCells == {Pt(6, 6), Pt(4, 5)}

\* playback speeds the speed buttons of the model set
ReplaySpeeds == {4}

GameInit ==
    game \in { NewGame(GridWidth, GridHeight, NewStorage("ok"), seed) : seed \in GameSeeds }

\* a click on the start, restart or play-again button of the screen shown
GameStart(seed, now) ==
    /\ ~game.hung /\ game.sessions < MaxSessions /\ game.loops < MaxLoops
    /\ game.screen # "none"
    /\ game' = start([game EXCEPT !.screen = "none"], seed, now)
    /\ GameFrame

\* the timer gameOver() set runs out
GameTimer(seed, now) ==
    /\ ~game.hung /\ game.timers > 0
    /\ game.sessions < MaxSessions /\ game.loops < MaxLoops
    /\ game' = [start(game, seed, now) EXCEPT !.timers = @ - 1]
    /\ GameFrame

\* how the game stands for the keydown listener
GameMode(g) ==
    IF g.isReplayMode THEN "replay"
    ELSE IF g.isPaused THEN "paused"
    ELSE IF g.isRunning THEN "playing" ELSE "stopped"

GameKeyDown(key) ==
    /\ ~game.hung /\ game.keys < MaxKeys
    /\ \E g \in {keydown(game, key)} :
          /\ g.loops <= MaxLoops
          /\ game' = [g EXCEPT !.keys = @ + 1,
                               !.lastKey = <<[arrow |-> key \in ArrowKeys,
                                              mode |-> GameMode(game)]>>]
    /\ GameFrame

\* the browser runs one pending animation-frame callback
GameUpdate(t) ==
    /\ ~game.hung /\ game.loops > 0
    /\ t.stepNow => game.steps < MaxSteps
    /\ t.foodExpired => game.specialFood.isActive
    /\ t.powerUpExpired => game.activePowerUp # Null
    /\ game' \in update(game, t, SpawnCells)
    /\ GameFrame

\* a click on the watch-replay button of the game-over screen or on the
\* watch-again button of the replay-complete screen
GameWatchLastReplay ==
    /\ ~game.hung /\ game.loops < MaxLoops
    /\ game.screen \in {"game-over", "replay-complete"}
    /\ game' = watchLastReplay([game EXCEPT !.screen = "none"])
    /\ GameFrame

\* a click on the stop button of the replay controls
GameStopReplay ==
    /\ ~game.hung /\ game.controls
    /\ game' = [stopReplay(game) EXCEPT !.screen = "start"]
    /\ GameFrame

\* a click on a speed button of the replay controls
GameSetReplaySpeed(speed) ==
    /\ ~game.hung /\ game.controls
    /\ game' = setReplaySpeed(game, speed)
    /\ GameFrame

\* a click on the pause button of the replay controls
GameToggleReplayPause ==
    /\ ~game.hung /\ game.controls /\ game.keys < MaxKeys
    /\ \E g \in {toggleReplayPause(game)} :
          /\ g.loops <= MaxLoops
          /\ game' = [g EXCEPT !.keys = @ + 1]
    /\ GameFrame

\* a click on the skip button of the replay controls
GameSkipReplayToEnd ==
    /\ ~game.hung /\ game.controls
    /\ game' = skipReplayToEnd(game)
    /\ GameFrame

GameNext ==
    \/ \E seed \in GameSeeds, now \in {1000} : GameStart(seed, now)
    \/ \E seed \in GameSeeds, now \in {1000} : GameTimer(seed, now)
    \/ \E key \in Keys : GameKeyDown(key)
    \/ \E t \in Clock : GameUpdate(t)
    \/ GameWatchLastReplay
    \/ GameStopReplay
    \/ \E speed \in ReplaySpeeds : GameSetReplaySpeed(speed)
    \/ GameToggleReplayPause
    \/ GameSkipReplayToEnd

\* C3: while a saved log is replayed, the head and the food after each step of
\* the replay are those after the same step of the session that saved the log.
ReplayRetracesSession ==
    (game # Null /\ game.isReplayMode)
        => \A k \in 1..Len(game.replayed) :
              k <= Len(game.saved) /\ game.replayed[k] = game.saved[k]

\* C22: an arrow key pressed while the game is not running, is paused or is
\* replaying a log changes neither the snake's pending direction nor the
\* inputs the recorder holds.
ArrowKeyIgnoredUnlessPlaying ==
    [][\A key \in ArrowKeys :
          (GameKeyDown(key) /\ (~game.isRunning \/ game.isPaused \/ game.isReplayMode))
              => /\ game'.snake.nextDirection = game.snake.nextDirection
                 /\ game'.replayRecorder.inputs = game.replayRecorder.inputs]_vars

\* an arrow key was pressed while a live session that had recorded nothing
\* was paused
ArrowKeyPressedWhilePaused ==
    /\ game.lastKey = <<[arrow |-> TRUE, mode |-> "paused"]>>
    /\ game.replayRecorder.isRecording
    /\ game.isPaused

\* C34: a step that took its move from the auto-pilot, the move being the
\* first step of a found path or a safe neighbour of the head, ends in no
\* collision with a wall, the snake or an obstacle, also when the snake ate on
\* the step before.
PilotedMoveHitsNothing ==
    (game # Null /\ game.piloted # Null /\ game.piloted[1].from \in {"path", "fallback"})
        => ~game.piloted[1].hit

ReplayLeavesStorageAlone ==
    [][(game.isReplayMode /\ game'.isReplayMode) => game'.ls = game.ls]_vars

\* a replay has come to its end with a score above the high score that is
\* stored
ReplayBeatTheStoredHighScore ==
    /\ game.isReplayMode /\ ~game.isRunning
    /\ game.screen = "replay-complete"
    /\ game.score > loadHighScore(game.ls)

(***************************************************************************)
(* SpecLoops: the game with up to MaxPending animation-frame callbacks     *)
(* pending at once.  The start button is clicked, the keys p and a are     *)
(* pressed, the browser runs pending callbacks in any order with the key   *)
(* presses, and the timer of an auto-pilot's game over restarts the game.  *)
(***************************************************************************)
MaxPending == 2
MaxLoopSteps == 3
MaxLoopKeys == 3

LoopSeeds == {63453}

LoopKeys == {"p", "a"}

LoopsInit ==
    game \in { NewGame(GridWidth, GridHeight, NewStorage("ok"), seed) : seed \in LoopSeeds }

\* a click on the start, restart or play-again button of the screen shown
LoopsStart(seed, now) ==
    /\ ~game.hung /\ game.sessions < MaxSessions /\ game.loops < MaxPending
    /\ game.screen # "none"
    /\ game' = start([game EXCEPT !.screen = "none"], seed, now)
    /\ GameFrame

\* the timer gameOver() set runs out
LoopsTimer(seed, now) ==
    /\ ~game.hung /\ game.timers > 0
    /\ game.sessions < MaxSessions /\ game.loops < MaxPending
    /\ game' = [start(game, seed, now) EXCEPT !.timers = @ - 1]
    /\ GameFrame

\* a key is pressed
LoopsKeyDown(key) ==
    /\ ~game.hung /\ game.keys < MaxLoopKeys
    /\ \E g \in {keydown(game, key)} :
          /\ g.loops <= MaxPending
          /\ game' = [g EXCEPT !.keys = @ + 1,
                               !.lastKey = <<[arrow |-> FALSE, mode |-> GameMode(game)]>>]
    /\ GameFrame

\* the browser runs one of the pending animation-frame callbacks
LoopsUpdate(t) ==
    /\ ~game.hung /\ game.loops > 0
    /\ t.stepNow => game.steps < MaxLoopSteps
    /\ t.foodExpired => game.specialFood.isActive
    /\ t.powerUpExpired => game.activePowerUp # Null
    /\ game' \in update(game, t, SpawnCells)
    /\ GameFrame

LoopsNext ==
    \/ \E seed \in LoopSeeds, now \in {1000} : LoopsStart(seed, now)
    \/ \E seed \in LoopSeeds, now \in {1000} : LoopsTimer(seed, now)
    \/ \E key \in LoopKeys : LoopsKeyDown(key)
    \/ \E t \in Clock : LoopsUpdate(t)

\* C38: while the game is running and not paused, at most one animation-frame
\* callback is pending, whatever starts, pauses, resumes and restarts came
\* before: there is never a second update loop.
OneLoopAlive ==
    (game.isRunning /\ ~game.isPaused) => game.loops <= 1

(***************************************************************************)
(* SpecLate: a live session that is under way.  It starts from a session   *)
(* in which the snake has eaten two foods and an invincibility power-up    *)
(* (score 30, no obstacle yet), or from one in which it has eaten nine     *)
(* foods and six bonus foods (score 390, the obstacle of the first batch   *)
(* standing, those of the second and third batches timed out) and faces    *)
(* the tenth food.  The food lies where the last respawn() put it with the *)
(* generator the draws so far have left; the recorder holds no input, the  *)
(* turns so far having been the auto-pilot's.  Keys are pressed and the    *)
(* browser runs update().                                                  *)
(***************************************************************************)
MaxLateSteps == 2
MaxLateKeys == 1

\* the generator after n more draws
RECURSIVE Drawn(_, _)
Drawn(st, n) == IF n = 0 THEN st ELSE Drawn(random(st).state, n - 1)

\* the session start() began with `seed`, after `frames` steps: the snake's
\* segments, direction, the score, the obstacles and the power-up are as the
\* steps left them, `draws` draws were made before the last respawn()
InProgress(seed, draws, frames, segments, direction, score, obstacles, lastSpawnScore, powerUp) ==
    CHOOSE out \in
        { [g EXCEPT !.live = <<Snapshot(g)>>] :
          g \in { gameRespawn(
                    [s EXCEPT !.snake.segments = segments, !.snake.direction = direction,
                              !.snake.nextDirection = direction,
                              !.score = score, !.highScore = score,
                              !.ls = setItem(@, highScoreKey, Digits(score)),
                              !.obstacleManager.obstacles = obstacles,
                              !.obstacleManager.lastSpawnScore = lastSpawnScore,
                              !.activePowerUp = powerUp,
                              !.replayRecorder.currentFrame = frames,
                              !.rng = Drawn(@, draws)]) :
                  s \in {start([NewGame(GridWidth, GridHeight, NewStorage("ok"), seed)
                                    EXCEPT !.screen = "none"], seed, 1000)} } } : TRUE

\* a snake of five segments that has turned twice and heads left
BentSnake == <<Pt(3, 2), Pt(4, 2), Pt(4, 1), Pt(3, 1), Pt(2, 1)>>

\* a snake of twelve segments that heads left along row 3
LongSnake ==
    <<Pt(2, 3), Pt(3, 3), Pt(4, 3), Pt(5, 3), Pt(6, 3), Pt(6, 2),
      Pt(5, 2), Pt(4, 2), Pt(3, 2), Pt(2, 2), Pt(1, 2), Pt(0, 2)>>

\* the obstacle of the first batch
FirstObstacle == [x |-> 3, y |-> 5, type |-> "static", duration |-> -1, direction |-> Pt(0, 0)]

\* cells the draws of spawn() and spawnObstacles() may hit: the cells to the
\* left and to the right of (5, 4), where the eleventh food comes
LateCells == {Pt(4, 4), Pt(6, 4)}

\* the sessions the specification starts from
LateSessions ==
    { [seed |-> 1, draws |-> 2, frames |-> 12, segments |-> BentSnake, score |-> 30,
       obstacles |-> <<>>, lastSpawnScore |-> 0,
       powerUp |-> <<[type |-> "invincibility", duration |-> 3000]>>],
      [seed |-> 1, draws |-> 2, frames |-> 12, segments |-> BentSnake, score |-> 20,
       obstacles |-> <<>>, lastSpawnScore |-> 0, powerUp |-> Null],
      [seed |-> 120, draws |-> 16, frames |-> 60, segments |-> LongSnake, score |-> 390,
       obstacles |-> <<FirstObstacle>>, lastSpawnScore |-> 300, powerUp |-> Null] }

LateInit ==
    game \in { InProgress(s.seed, s.draws, s.frames, s.segments, LEFT, s.score, s.obstacles,
                          s.lastSpawnScore, s.powerUp) : s \in LateSessions }

\* an arrow key is pressed
LateKeyDown(key) ==
    /\ ~game.hung /\ game.keys < MaxLateKeys
    /\ game' = [keydown(game, key) EXCEPT !.keys = @ + 1,
                                          !.lastKey = <<[arrow |-> TRUE, mode |-> GameMode(game)]>>]
    /\ GameFrame

\* the browser runs the pending animation-frame callback
LateUpdate(t) ==
    /\ ~game.hung /\ game.loops > 0
    /\ t.stepNow => game.steps < MaxLateSteps
    /\ t.foodExpired => game.specialFood.isActive
    /\ t.powerUpExpired => game.activePowerUp # Null
    /\ game' \in update(game, t, LateCells)
    /\ GameFrame

LateNext ==
    \/ \E key \in ArrowKeys : LateKeyDown(key)
    \/ \E t \in Clock : LateUpdate(t)

\* C26: while a game is running, the food is on no segment of the snake and on
\* no obstacle, whatever steps, obstacle moves and obstacle batches came before.
FoodOnFreeCell ==
    (game.isRunning /\ ~game.hung)
        => /\ Pt(game.food.x, game.food.y) \notin Points(game.snake.segments)
           /\ Pt(game.food.x, game.food.y) \notin getObstaclePositions(game.obstacleManager)

\* C27: after a step that has not ended the game, no two segments of the snake
\* are on the same cell and every segment is a cell of the grid, also while the
\* snake is invincible.
SegmentsDistinctInsideGrid ==
    (game.isRunning /\ ~game.hung /\ game.steps > 0)
        => /\ \A i, j \in 1..Len(game.snake.segments) :
                  i # j => game.snake.segments[i] # game.snake.segments[j]
           /\ \A i \in 1..Len(game.snake.segments) :
                  game.snake.segments[i] \in Cells(game.gridWidth, game.gridHeight)

(***************************************************************************)
(* SpecPilot: an AutoPilot over a snake, a food and obstacles; obstacles   *)
(* are set and getNextMove() is called.  pilot.path is what bfs returned   *)
(* inside getNextMove and pilot.move what getNextMove returned; asked tells *)
(* that they are those of the positions as they are now, and asks counts   *)
(* the calls of getNextMove().  In SpecCalls the obstacles are set again   *)
(* after a call and getNextMove() is called again.                         *)
(***************************************************************************)
PilotWidth == 4
PilotHeight == 4
MaxBody == 3
MaxAsks == 2

PilotFrame ==
    UNCHANGED <<rngs, snake, snakeLog, food, rec, player, calls, store, share, game, tape, manager>>

PilotCells == {Pt(x, y) : x \in 0..(PilotWidth - 1), y \in 0..(PilotHeight - 1)}

Abs(n) == IF n < 0 THEN -n ELSE n
Manhattan(a, b) == Abs(a.x - b.x) + Abs(a.y - b.y)

\* the bodies a snake of at most MaxBody segments can have: each segment beside
\* the one before it, no cell twice
Bodies ==
    { body \in UNION { [1..n -> PilotCells] : n \in 1..MaxBody } :
          /\ \A i \in 1..(Len(body) - 1) : Manhattan(body[i], body[i + 1]) = 1
          /\ \A i, j \in 1..Len(body) : i # j => body[i] # body[j] }

\* the obstacle cells given to setObstacles
ObstacleSets ==
    {{Pt(1, 1)}, {Pt(1, 0), Pt(1, 1)}, {Pt(0, 1), Pt(1, 1)}, {Pt(2, 1), Pt(1, 2)},
     {Pt(1, 1), Pt(2, 1), Pt(2, 2)}}

PilotInit ==
    \E body \in Bodies : \E foodPos \in PilotCells \ Points(body) :
        pilot = [snake |-> [NewSnake(PilotWidth, PilotHeight) EXCEPT !.segments = body],
                 food |-> foodPos, obstacles |-> {}, asked |-> FALSE, asks |-> 0,
                 path |-> Null, move |-> UP]

\* setObstacles(obstacles), with cells that hold neither the snake nor the food
PilotSetObstacles(obstacles) ==
    /\ ~pilot.asked
    /\ pilot.obstacles = {}
    /\ obstacles \cap (Points(pilot.snake.segments) \cup {pilot.food}) = {}
    /\ pilot' = [pilot EXCEPT !.obstacles = obstacles]
    /\ PilotFrame

\* getNextMove()
PilotGetNextMove ==
    /\ ~pilot.asked
    /\ pilot' = [pilot EXCEPT
                    !.asked = TRUE, !.asks = @ + 1,
                    !.path = bfs(<<[pos |-> pilot.snake.segments[1], path |-> <<>>]>>,
                                 {pilot.snake.segments[1]}, pilot.food, pilot.snake.segments,
                                 pilot.obstacles, PilotWidth, PilotHeight),
                    !.move = getNextMove(pilot.snake, pilot.food, pilot.obstacles)]
    /\ PilotFrame

PilotNext ==
    \/ \E obstacles \in ObstacleSets : PilotSetObstacles(obstacles)
    \/ PilotGetNextMove

\* setObstacles(obstacles) after a call of getNextMove(): other obstacles, or
\* none
PilotSetObstaclesAgain(obstacles) ==
    /\ pilot.asked /\ pilot.asks < MaxAsks
    /\ obstacles # pilot.obstacles
    /\ obstacles \cap (Points(pilot.snake.segments) \cup {pilot.food}) = {}
    /\ pilot' = [pilot EXCEPT !.obstacles = obstacles, !.asked = FALSE,
                              !.path = Null, !.move = UP]
    /\ PilotFrame

CallsNext ==
    \/ \E obstacles \in ObstacleSets : PilotSetObstacles(obstacles)
    \/ PilotGetNextMove
    \/ \E obstacles \in ObstacleSets \cup {{}} : PilotSetObstaclesAgain(obstacles)

\* a cell the snake can walk on: inside the grid, on no segment but the tail,
\* on no obstacle
PilotOpen(p) ==
    /\ p \in PilotCells
    /\ \A i \in 1..(Len(pilot.snake.segments) - 1) : pilot.snake.segments[i] # p
    /\ p \notin pilot.obstacles

\* the length of the shortest walk over open cells from the cells seen, which
\* are k steps away from the start, to the target; -1 when there is none
RECURSIVE Spread(_, _, _)
Spread(seen, k, target) ==
    IF target \in seen THEN k
    ELSE LET next == seen \cup { n \in PilotCells :
                                    PilotOpen(n) /\ \E c \in seen : Manhattan(c, n) = 1 }
         IN  IF next = seen THEN -1 ELSE Spread(next, k + 1, target)

WalkDistance(from, to) == Spread({from}, 0, to)

\* no segment but the head and the tail, and no obstacle, lies in the rectangle
\* spanned by the head and the food
NothingInTheWay ==
    LET head == pilot.snake.segments[1]
        Between(a, n, b) == (a <= n /\ n <= b) \/ (b <= n /\ n <= a)
        Inside(p) == Between(head.x, p.x, pilot.food.x) /\ Between(head.y, p.y, pilot.food.y)
    IN  /\ pilot.obstacles = {}
        /\ \A i \in 2..(Len(pilot.snake.segments) - 1) : ~Inside(pilot.snake.segments[i])

\* C12: when a walk over open cells leads from the head to the food,
\* getNextMove() returns the first step of a path over open cells to the food
\* that is as short as any; with nothing in the way its length is the
\* Manhattan distance from the head to the food.
GetNextMoveTakesShortestPath ==
    LET head == pilot.snake.segments[1]
        shortest == WalkDistance(head, pilot.food)
    IN  (pilot.asked /\ shortest > 0)
            => /\ pilot.path # Null
               /\ Len(pilot.path[1]) = shortest
               /\ pilot.path[1][shortest] = pilot.food
               /\ \A i \in 1..shortest :
                      /\ PilotOpen(pilot.path[1][i])
                      /\ Manhattan(IF i = 1 THEN head ELSE pilot.path[1][i - 1],
                                   pilot.path[1][i]) = 1
               /\ Pt(head.x + pilot.move.x, head.y + pilot.move.y) = pilot.path[1][1]
               /\ WalkDistance(pilot.path[1][1], pilot.food) = shortest - 1
               /\ NothingInTheWay => shortest = Manhattan(head, pilot.food)

\* getNextMove() has led a snake of three segments around obstacles, on a path
\* longer than the Manhattan distance
PilotTookDetour ==
    /\ pilot.asked
    /\ pilot.path # Null
    /\ Len(pilot.snake.segments) = 3
    /\ pilot.obstacles # {}
    /\ Len(pilot.path[1]) > Manhattan(pilot.snake.segments[1], pilot.food)

\* the directions in the order up, down, left, right
DirectionOrder == <<UP, DOWN, LEFT, RIGHT>>

\* the cell one step from p in direction d
Beside(p, d) == Pt(p.x + d.x, p.y + d.y)

\* whether a step from p in direction d is the first step of a walk over open
\* cells that reaches the food with `left` steps in all
LeadsToFood(p, d, left) ==
    PilotOpen(Beside(p, d)) /\ WalkDistance(Beside(p, d), pilot.food) = left - 1

\* of the walks of `left` steps over open cells from p to the food, `left`
\* being the length of the shortest, the one that comes first when walks are
\* compared step by step in the order up, down, left, right
RECURSIVE LeastPath(_, _)
LeastPath(p, left) ==
    IF left = 0 THEN <<>>
    ELSE LET first == CHOOSE i \in 1..4 :
                          /\ LeadsToFood(p, DirectionOrder[i], left)
                          /\ \A j \in 1..(i - 1) : ~LeadsToFood(p, DirectionOrder[j], left)
         IN  <<Beside(p, DirectionOrder[first])>>
                 \o LeastPath(Beside(p, DirectionOrder[first]), left - 1)

\* C32: when a walk over open cells leads from the head to the food, the path
\* getNextMove() follows is, of the shortest such walks, the one that comes
\* first when walks are compared step by step in the order up, down, left,
\* right, and the move returned is its first step, whatever was asked before
\* with other obstacles.
GetNextMoveTakesLeastPath ==
    LET head == pilot.snake.segments[1]
        shortest == WalkDistance(head, pilot.food)
    IN  (pilot.asked /\ shortest > 0)
            => /\ pilot.path = <<LeastPath(head, shortest)>>
               /\ Beside(head, pilot.move) = LeastPath(head, shortest)[1]

\* getNextMove() was called a second time, with obstacles set in between, and
\* had the choice between two first steps of shortest walks, neither of them up
SecondCallBrokeTie ==
    LET head == pilot.snake.segments[1]
        shortest == WalkDistance(head, pilot.food)
    IN  /\ pilot.asked /\ pilot.asks = 2
        /\ pilot.obstacles # {}
        /\ shortest > 1
        /\ ~LeadsToFood(head, UP, shortest)
        /\ Cardinality({i \in 1..4 : LeadsToFood(head, DirectionOrder[i], shortest)}) = 2

\* C33: when no walk over open cells leads from the head to the food,
\* getNextMove() returns the direction of the first of the head's neighbours,
\* in the order up, down, left, right, that is inside the grid, on no segment
\* but the tail and on no obstacle; when there is none it returns up.
FallbackTakesFirstSafeNeighbour ==
    LET head == pilot.snake.segments[1]
        Safe(i) == PilotOpen(Beside(head, DirectionOrder[i]))
    IN  (pilot.asked /\ WalkDistance(head, pilot.food) = -1)
            => IF \E i \in 1..4 : Safe(i)
               THEN \E i \in 1..4 : /\ Safe(i)
                                    /\ \A j \in 1..(i - 1) : ~Safe(j)
                                    /\ pilot.move = DirectionOrder[i]
               ELSE pilot.move = UP

\* getNextMove() found no path and turned the snake left, an obstacle lying
\* below the head and the grid's edge above it
FellBackToTheLeft ==
    LET head == pilot.snake.segments[1]
    IN  /\ pilot.asked
        /\ pilot.path = Null
        /\ pilot.move = LEFT
        /\ head.y = 0
        /\ Beside(head, DOWN) \in pilot.obstacles

\* getNextMove() found no path and no neighbour of the head to go to
NowhereToGo ==
    LET head == pilot.snake.segments[1]
    IN  /\ pilot.asked
        /\ pilot.path = Null
        /\ \A i \in 1..4 : ~PilotOpen(Beside(head, DirectionOrder[i]))

(***************************************************************************)
(* SpecObstacle: one Obstacle, constructed from a config, whose update()   *)
(* is called again and again.  manager.obstacle is the obstacle,           *)
(* manager.last the obstacle before the last update() and what that        *)
(* update() returned.                                                      *)
(* SpecSpawns: one ObstacleManager whose checkSpawn is called with scores  *)
(* that never decrease.  manager.om is the manager, manager.scores the     *)
(* scores passed so far and manager.batches the batches spawned: for each  *)
(* the score of the call, the level and the obstacle count spawnObstacles  *)
(* worked with and the obstacles it added.                                 *)
(***************************************************************************)
ObstacleWidth == 3
ObstacleHeight == 3
MaxChecks == 4

ManagerFrame ==
    UNCHANGED <<rngs, snake, snakeLog, food, rec, player, calls, store, share, game, pilot, tape>>

ManagerIdle ==
    manager = [obstacle |-> Null, last |-> Null,
               om |-> NewObstacleManager(ObstacleWidth, ObstacleHeight),
               scores |-> <<>>, batches |-> <<>>]

\* the directions given to moving obstacles: the four getRandomDirection()
\* draws from, a diagonal one, one of two cells a tick, and none
ObstacleDirections ==
    Vectors \cup {Pt(1, 1), Pt(-1, 1), Pt(2, 0), Pt(0, 0)}

\* the configs of the obstacles constructed: moving ones on every cell of the
\* grid, a temporary one without and one with a duration, a static one
ObstacleConfigs ==
    { [type |-> "moving", position |-> c, duration |-> Null, direction |-> <<d>>] :
      c \in Cells(ObstacleWidth, ObstacleHeight), d \in ObstacleDirections }
    \cup { [type |-> "temporary", position |-> Pt(1, 1), duration |-> Null, direction |-> Null],
           [type |-> "temporary", position |-> Pt(1, 1), duration |-> <<2>>, direction |-> Null],
           [type |-> "static", position |-> Pt(1, 1), duration |-> Null, direction |-> Null] }

ObstacleInit ==
    \E config \in ObstacleConfigs :
        manager = [obstacle |-> <<NewObstacle(config)>>, last |-> Null,
                   om |-> NewObstacleManager(ObstacleWidth, ObstacleHeight),
                   scores |-> <<>>, batches |-> <<>>]

\* obstacle.update(), until the obstacle has reported that it is to be removed
ObstacleUpdate ==
    /\ manager.obstacle # Null
    /\ manager.last # Null => ~manager.last[1].remove
    /\ \E r \in {obstacleUpdate(manager.obstacle[1], ObstacleWidth, ObstacleHeight)} :
          manager' = [manager EXCEPT !.obstacle = <<r.obstacle>>,
                                     !.last = <<[before |-> manager.obstacle[1],
                                                 remove |-> r.remove]>>]
    /\ ManagerFrame

ObstacleNext == ObstacleUpdate

\* along one axis of `size` cells: from `from` with direction component `by`
\* the obstacle has gone on to `to` with component `then`, having stepped when
\* the step led to a cell of the axis and turned on the spot when it did not
StepsOrTurns(from, by, to, then, size) ==
    IF from + by < 0 \/ from + by >= size
    THEN to = from /\ then = -by
    ELSE to = from + by /\ then = by

\* C35: a moving obstacle constructed on a cell of the grid is on a cell of the
\* grid after every update(); along each axis an update() either steps or,
\* when the step would leave the grid, reverses that component of the
\* direction and stays; and update() never returns that the obstacle is to be
\* removed.
MovingObstacleStaysInside ==
    (manager.obstacle # Null /\ manager.obstacle[1].type = "moving")
        => LET o == manager.obstacle[1]
           IN  /\ Pt(o.x, o.y) \in Cells(ObstacleWidth, ObstacleHeight)
               /\ manager.last # Null
                      => /\ ~manager.last[1].remove
                         /\ StepsOrTurns(manager.last[1].before.x,
                                         manager.last[1].before.direction.x,
                                         o.x, o.direction.x, ObstacleWidth)
                         /\ StepsOrTurns(manager.last[1].before.y,
                                         manager.last[1].before.direction.y,
                                         o.y, o.direction.y, ObstacleHeight)

\* a moving obstacle going diagonally has turned at the grid's right edge and
\* stepped downwards on the same update()
TurnedAtTheEdge ==
    /\ manager.obstacle # Null /\ manager.last # Null
    /\ manager.obstacle[1].type = "moving"
    /\ manager.last[1].before.direction = Pt(1, 1)
    /\ manager.obstacle[1].direction = Pt(-1, 1)
    /\ manager.obstacle[1].x = ObstacleWidth - 1
    /\ manager.obstacle[1].y = manager.last[1].before.y + 1

\* the scores passed to checkSpawn
SpawnScores == {50, 100, 150, 250, 400}

\* the snake and the food passed to checkSpawn, as in the tests of checkSpawn
SpawnSnake == {Pt(0, 0)}
SpawnFood == Pt(1, 1)

\* cells the draws of findValidPosition may hit: the snake's and two free ones
SpawnDraws == {Pt(0, 0), Pt(2, 2), Pt(1, 2)}

SpawnsInit == ManagerIdle

\* checkSpawn(score, snakeSegments, foodPosition) with a score not below the
\* score of the call before
ManagerCheckSpawn(score) ==
    /\ Len(manager.scores) < MaxChecks
    /\ manager.scores # <<>> => score >= manager.scores[Len(manager.scores)]
    /\ \E om \in checkSpawn(manager.om, score, SpawnSnake, SpawnFood, SpawnDraws) :
          manager' = [manager EXCEPT
              !.om = om,
              !.scores = Append(@, score),
              !.batches =
                  IF spawnsBatch(manager.om, score)
                  THEN Append(@, [score |-> score, level |-> spawnLevel(manager.om),
                                  count |-> Min(spawnLevel(manager.om), 5),
                                  added |-> SubSeq(om.obstacles, Len(manager.om.obstacles) + 1,
                                                   Len(om.obstacles))])
                  ELSE @]
    /\ ManagerFrame

SpawnsNext == \E score \in SpawnScores : ManagerCheckSpawn(score)

\* the 100-point band of a score: 0 below 100 points
Band(score) == score \div 100

BatchLevelIsScoreBand ==
    \A i \in 1..Len(manager.batches) :
        LET batch == manager.batches[i]
        IN  /\ batch.level = Band(batch.score)
            /\ batch.count = Min(Band(batch.score), 5)
            /\ \A k \in 1..Len(batch.added) :
                   batch.added[k].type \in ObstacleTypes(Band(batch.score))

(***************************************************************************)
(* SpecRecorder: a ReplayRecorder and the objects its caller passes to     *)
(* startRecording.  tape.heap is the heap, a sequence of objects, and a    *)
(* reference is an object's position in it; a point object has x and y,    *)
(* an array object the references a.  tape.snake and tape.direction are    *)
(* the caller's array of points and direction object; tape.obj is the      *)
(* recorder, whose initialSnake and initialDirection are references, and   *)
(* tape.log the log stopRecording returned.  tape.given is what the        *)
(* caller's objects held when startRecording was last called and           *)
(* tape.logGiven what they held at the startRecording of tape.log,         *)
(* tape.taken                                                              *)
(* the named vectors offered while recording since then, tape.early tells  *)
(* that a named vector was offered before the first startRecording, and    *)
(* tape.ignored counts the calls made while not recording.  tape.arrays    *)
(* holds the arrays of inputs, tape.inputs being the reference the         *)
(* recorder's inputs field holds and tape.obj.inputs what that array       *)
(* holds; tape.first is the first log returned, with the reference of its  *)
(* inputs array and with what its arrays and objects held when it was      *)
(* returned; tape.starts and tape.stops count the startRecording and       *)
(* stopRecording calls.  SpecRecorder follows one session, in which the    *)
(* caller also writes its objects; SpecSessions follows the recorder's     *)
(* calls over several sessions, each started when the one before it has    *)
(* been stopped.                                                           *)
(***************************************************************************)
MaxTapeInputs == 1
MaxTapeFrames == 1
MaxIgnored == 2
MaxMutations == 2
MaxTapeStarts == 2

TapeFrame ==
    UNCHANGED <<rngs, snake, snakeLog, food, rec, player, calls, store, share, game, pilot, manager>>

HeapPoint(p) == [t |-> "point", x |-> p.x, y |-> p.y, a |-> <<>>]
HeapArray(refs) == [t |-> "array", x |-> 0, y |-> 0, a |-> refs]

\* the point a reference leads to, and the points of the array it leads to
PointAt(heap, ref) == Pt(heap[ref].x, heap[ref].y)
SegmentsAt(heap, ref) == [i \in 1..Len(heap[ref].a) |-> PointAt(heap, heap[ref].a[i])]

\* initialSnake.map(s => ({ ...s })): a new array of new points, the last
\* object of the heap returned
CopySnake(heap, ref) ==
    heap \o [i \in 1..Len(heap[ref].a) |-> HeapPoint(PointAt(heap, heap[ref].a[i]))]
         \o <<HeapArray([i \in 1..Len(heap[ref].a) |-> Len(heap) + i])>>

\* { ...initialDirection }: a new point, the last object of the heap returned
CopyPoint(heap, ref) == Append(heap, HeapPoint(PointAt(heap, ref)))

\* a new array of the same points, and a new direction
CopyArrayOnly(heap, initialSnake, initialDirection) ==
    [heap |-> CopyPoint(Append(heap, HeapArray(heap[initialSnake].a)), initialDirection),
     initialSnake |-> Len(heap) + 1, initialDirection |-> Len(heap) + 2]

\* what startRecording keeps of initialSnake and initialDirection: the heap
\* afterwards and the references stored in the recorder
CopyArguments(heap, initialSnake, initialDirection) ==
    [heap |-> CopyPoint(CopySnake(heap, initialSnake), initialDirection),
     initialSnake |-> Len(heap) + Len(heap[initialSnake].a) + 1,
     initialDirection |-> Len(heap) + Len(heap[initialSnake].a) + 2]

\* this.inputs = []: a new array, the last of the arrays returned
NewInputs(arrays) == [arrays |-> Append(arrays, <<>>), ref |-> Len(arrays) + 1]

\* [...this.inputs]: a new array of the same inputs, the last of the arrays returned
CopyInputs(arrays, ref) == [arrays |-> Append(arrays, arrays[ref]), ref |-> Len(arrays) + 1]

\* what a log holds: its scalars, and what its arrays and objects hold now
Held(heap, arrays, data, inputs) ==
    [seed |-> data.seed, gridWidth |-> data.gridWidth, gridHeight |-> data.gridHeight,
     finalScore |-> data.finalScore, inputs |-> arrays[inputs],
     initialSnake |-> SegmentsAt(heap, data.initialSnake),
     initialDirection |-> PointAt(heap, data.initialDirection)]

\* the caller's objects: the segments and the direction of a new Snake
TapeInit ==
    tape = [heap |-> [i \in 1..3 |-> HeapPoint(NewSnake(GridWidth, GridHeight).segments[i])]
                     \o <<HeapArray(<<1, 2, 3>>), HeapPoint(RIGHT)>>,
            snake |-> 4, direction |-> 5, obj |-> NewRecorder, log |-> Null,
            given |-> Null, logGiven |-> Null, taken |-> <<>>, early |-> FALSE, ignored |-> 0,
            mutations |-> 0, arrays |-> <<<<>>>>, inputs |-> 1, first |-> Null,
            starts |-> 0, stops |-> 0]

\* startRecording(...) with the caller's objects: tape afterwards
TapeStarted(seed, now) ==
    CHOOSE out \in
        { [tape EXCEPT
               !.heap = kept.heap,
               !.arrays = NewInputs(@).arrays,
               !.inputs = NewInputs(tape.arrays).ref,
               !.starts = @ + 1,
               !.obj = startRecording(@, seed, GridWidth, GridHeight, kept.initialSnake,
                                      kept.initialDirection, 75, now),
               !.given = <<[snake |-> SegmentsAt(tape.heap, tape.snake),
                            direction |-> PointAt(tape.heap, tape.direction)]>>,
               !.taken = <<>>] :
          kept \in {CopyArguments(tape.heap, tape.snake, tape.direction)} } : TRUE

\* the first startRecording
TapeStart(seed, now) ==
    /\ tape.starts = 0
    /\ tape' = TapeStarted(seed, now)
    /\ TapeFrame

\* startRecording after a log was returned
TapeRestart(seed, now) ==
    /\ tape.starts > 0 /\ tape.starts < MaxTapeStarts
    /\ tape.first # Null /\ ~tape.obj.isRecording
    /\ tape' = TapeStarted(seed, now)
    /\ TapeFrame

TapeInput(direction) ==
    /\ Len(tape.obj.inputs) < MaxTapeInputs
    /\ ~tape.obj.isRecording => tape.ignored < MaxIgnored
    /\ tape' = [tape EXCEPT
                   !.obj = recordInput(@, direction),
                   !.arrays[tape.inputs] = recordInput(tape.obj, direction).inputs,
                   !.taken = IF tape.obj.isRecording /\ VECTOR_TO_DIRECTION(direction) # Null
                             THEN Append(@, direction) ELSE @,
                   !.early = @ \/ (tape.given = Null /\ VECTOR_TO_DIRECTION(direction) # Null),
                   !.ignored = IF tape.obj.isRecording THEN @ ELSE @ + 1]
    /\ TapeFrame

TapeAdvance ==
    /\ tape.obj.currentFrame < MaxTapeFrames
    /\ ~tape.obj.isRecording => tape.ignored < MaxIgnored
    /\ tape' = [tape EXCEPT !.obj = recorderAdvanceFrame(@),
                            !.ignored = IF tape.obj.isRecording THEN @ ELSE @ + 1]
    /\ TapeFrame

\* stopRecording(finalScore): tape afterwards
TapeStopped(finalScore) ==
    CHOOSE out \in
        { [tape EXCEPT
               !.obj = r.rec,
               !.log = <<r.data>>,
               !.logGiven = tape.given,
               !.arrays = copy.arrays,
               !.stops = @ + 1,
               !.ignored = IF tape.obj.isRecording THEN @ ELSE @ + 1,
               !.first = IF @ = Null
                         THEN <<[log |-> r.data, inputs |-> copy.ref,
                                 held |-> Held(tape.heap, copy.arrays, r.data, copy.ref)]>>
                         ELSE @] :
          copy \in {CopyInputs(tape.arrays, tape.inputs)},
          r \in {stopRecording(tape.obj, finalScore)} } : TRUE

TapeStop(finalScore) ==
    /\ tape.obj.isRecording
    /\ tape' = TapeStopped(finalScore)
    /\ TapeFrame

\* stopRecording on a recorder that is not recording
TapeStopAgain(finalScore) ==
    /\ tape.starts > 0 /\ ~tape.obj.isRecording
    /\ tape.ignored < MaxIgnored
    /\ tape' = TapeStopped(finalScore)
    /\ TapeFrame

\* the caller writes x of segment i, as Game.handleWrapAround does
TapeMovePoint(i, x) ==
    /\ tape.mutations < MaxMutations
    /\ i <= Len(tape.heap[tape.snake].a)
    /\ tape' = [tape EXCEPT !.heap[tape.heap[tape.snake].a[i]].x = x, !.mutations = @ + 1]
    /\ TapeFrame

\* the caller's snake moves: segments.unshift(newHead), segments.pop()
TapeMoveSnake ==
    /\ tape.mutations < MaxMutations
    /\ \E head \in {PointAt(tape.heap, tape.heap[tape.snake].a[1])} :
       \E by \in {PointAt(tape.heap, tape.direction)} :
           tape' = [tape EXCEPT
                       !.heap = [Append(@, HeapPoint(Pt(head.x + by.x, head.y + by.y)))
                                    EXCEPT ![tape.snake].a =
                                        <<Len(tape.heap) + 1>>
                                            \o SubSeq(@, 1, Len(@) - 1)],
                       !.mutations = @ + 1]
    /\ TapeFrame

\* the caller writes the direction object
TapeTurn(v) ==
    /\ tape.mutations < MaxMutations
    /\ PointAt(tape.heap, tape.direction) # v
    /\ tape' = [tape EXCEPT !.heap[tape.direction].x = v.x, !.heap[tape.direction].y = v.y,
                            !.mutations = @ + 1]
    /\ TapeFrame

TapeNext ==
    \/ \E seed \in {12345}, now \in {1000} : TapeStart(seed, now)
    \/ \E direction \in RecorderVectors : TapeInput(direction)
    \/ TapeAdvance
    \/ \E finalScore \in {10} : TapeStop(finalScore)
    \/ \E i \in {1}, x \in {10} : TapeMovePoint(i, x)
    \/ TapeMoveSnake
    \/ \E v \in {DOWN} : TapeTurn(v)

\* SpecSessions: the recorder's calls alone, over several sessions
SessionsNext ==
    \/ \E seed \in {12345}, now \in {1000} : TapeStart(seed, now)
    \/ \E direction \in RecorderVectors : TapeInput(direction)
    \/ TapeAdvance
    \/ \E finalScore \in {10} : TapeStop(finalScore)
    \/ \E seed \in {54321}, now \in {2000} : TapeRestart(seed, now)
    \/ \E finalScore \in {20} : TapeStopAgain(finalScore)

\* C16: a call of recordInput or advanceFrame on a recorder that is not
\* recording leaves the recorder as it was, and the inputs of a log are the
\* named vectors offered since the startRecording before it, none offered
\* earlier.
IdleRecorderIgnoresCalls ==
    [][ /\ (~tape.obj.isRecording /\ ~tape'.obj.isRecording)
              => (tape'.obj = tape.obj /\ tape'.log = tape.log)
        /\ (tape'.log # tape.log)
              => [i \in 1..Len(tape'.log[1].inputs) |->
                     DIRECTION_VECTORS(tape'.log[1].inputs[i].direction)] = tape'.taken ]_vars

\* a log with one input has been returned by a recorder that was offered a
\* named vector before startRecording and calls after stopRecording
EarlyInputNotInLog ==
    /\ tape.log # Null
    /\ ~tape.obj.isRecording
    /\ tape.early
    /\ tape.ignored = MaxIgnored
    /\ Len(tape.log[1].inputs) = 1

\* C30: no later call of the recorder changes the first log stopRecording
\* returned: its seed, grid size and final score, the inputs in its array, the
\* points of its initial snake and its initial direction stay what they were
\* when it was returned, and until startRecording is called again the recorder
\* is not recording.
ReturnedLogStaysAsReturned ==
    tape.first # Null
        => /\ Held(tape.heap, tape.arrays, tape.first[1].log, tape.first[1].inputs)
                  = tape.first[1].held
           /\ tape.starts = 1 => ~tape.obj.isRecording

\* after the first log was returned the recorder was started and stopped
\* again; it holds other inputs than that log, and the last log returned has
\* another score
LaterSessionAfterFirstLog ==
    /\ tape.first # Null
    /\ tape.starts = 2
    /\ tape.stops >= 3
    /\ ~tape.obj.isRecording
    /\ tape.log[1].finalScore # tape.first[1].held.finalScore
    /\ tape.arrays[tape.inputs] # tape.first[1].held.inputs

\* C17: whatever the caller writes to the array, the points or the direction
\* it passed to startRecording, initialSnake and initialDirection of the log
\* stopRecording returns are what those objects held at startRecording.
LogKeepsInitialSnake ==
    tape.log # Null
        => /\ SegmentsAt(tape.heap, tape.log[1].initialSnake) = tape.logGiven[1].snake
           /\ PointAt(tape.heap, tape.log[1].initialDirection) = tape.logGiven[1].direction

\* after startRecording the caller wrote a point and the direction, and the
\* log has been returned
CallerWroteAfterStart ==
    /\ tape.log # Null
    /\ PointAt(tape.heap, tape.heap[tape.snake].a[1]) # tape.logGiven[1].snake[1]
    /\ PointAt(tape.heap, tape.direction) # tape.logGiven[1].direction

(***************************************************************************)
(* The specifications.  Each lets one component run and keeps the others   *)
(* as constructed.                                                         *)
(***************************************************************************)
RngIdle == rngs = [g \in GenIds |-> NewGen(0)]
SnakeIdle == snake = NewSnake(GridWidth, GridHeight) /\ snakeLog = NoCall(snake)
FoodIdle ==
    food = [obj |-> NewFood(FoodWidth, FoodHeight, Pt(0, 0)), segs |-> {}, obs |-> {},
            call |-> [status |-> "none", attempts |-> 0, count |-> 0]]
ReplayIdle == ReplayInit
StoreIdle ==
    store = [ls |-> NewStorage("ok"), saves |-> 0, ret |-> NoReturn,
             before |-> NewStorage("ok"), arg |-> 0]
ShareIdle ==
    share = [data |-> ReplayDataValue(SampleReplay(0, 0)), encoded |-> Null, imported |-> Null,
             done |-> FALSE, kind |-> "none", caught |-> "none"]
GameIdle == game = Null
PilotIdle ==
    pilot = [snake |-> NewSnake(PilotWidth, PilotHeight), food |-> Pt(0, 0), obstacles |-> {},
             asked |-> FALSE, asks |-> 0, path |-> Null, move |-> UP]

TapeIdle ==
    tape = [heap |-> <<>>, snake |-> 0, direction |-> 0, obj |-> NewRecorder, log |-> Null,
            given |-> Null, logGiven |-> Null, taken |-> <<>>, early |-> FALSE, ignored |-> 0,
            mutations |-> 0, arrays |-> <<<<>>>>, inputs |-> 1, first |-> Null,
            starts |-> 0, stops |-> 0]

InitRng == RngInit /\ SnakeIdle /\ FoodIdle /\ ReplayIdle /\ StoreIdle /\ ShareIdle /\ GameIdle /\ PilotIdle /\ TapeIdle /\ ManagerIdle
SpecRng == InitRng /\ [][RngNext]_vars

InitSnake == SnakeInit /\ RngIdle /\ FoodIdle /\ ReplayIdle /\ StoreIdle /\ ShareIdle /\ GameIdle /\ PilotIdle /\ TapeIdle /\ ManagerIdle
SpecSnake == InitSnake /\ [][SnakeNext]_vars

InitReplay == ReplayInit /\ RngIdle /\ SnakeIdle /\ FoodIdle /\ StoreIdle /\ ShareIdle /\ GameIdle /\ PilotIdle /\ TapeIdle /\ ManagerIdle
SpecReplay == InitReplay /\ [][ReplayNext]_vars

InitStorage ==
    StorageInit /\ RngIdle /\ SnakeIdle /\ FoodIdle /\ ReplayIdle /\ ShareIdle /\ GameIdle /\ PilotIdle /\ TapeIdle /\ ManagerIdle
SpecStorage == InitStorage /\ [][StorageNext]_vars

InitStorageFaults ==
    StorageInit /\ RngIdle /\ SnakeIdle /\ FoodIdle /\ ReplayIdle /\ ShareIdle /\ GameIdle
    /\ PilotIdle /\ TapeIdle /\ ManagerIdle
SpecStorageFaults == InitStorageFaults /\ [][StorageFaultsNext]_vars

InitShare ==
    ShareInit /\ RngIdle /\ SnakeIdle /\ FoodIdle /\ ReplayIdle /\ StoreIdle /\ GameIdle /\ PilotIdle /\ TapeIdle /\ ManagerIdle
SpecShare == InitShare /\ [][ShareNext]_vars

InitGame ==
    GameInit /\ RngIdle /\ SnakeIdle /\ FoodIdle /\ ReplayIdle /\ StoreIdle /\ ShareIdle /\ PilotIdle /\ TapeIdle /\ ManagerIdle
SpecGame == InitGame /\ [][GameNext]_vars

InitLoops ==
    LoopsInit /\ RngIdle /\ SnakeIdle /\ FoodIdle /\ ReplayIdle /\ StoreIdle /\ ShareIdle /\ PilotIdle
    /\ TapeIdle /\ ManagerIdle
SpecLoops == InitLoops /\ [][LoopsNext]_vars

InitLate ==
    LateInit /\ RngIdle /\ SnakeIdle /\ FoodIdle /\ ReplayIdle /\ StoreIdle /\ ShareIdle /\ PilotIdle /\ TapeIdle /\ ManagerIdle
SpecLate == InitLate /\ [][LateNext]_vars

InitPilot ==
    PilotInit /\ RngIdle /\ SnakeIdle /\ FoodIdle /\ ReplayIdle /\ StoreIdle /\ ShareIdle /\ GameIdle
    /\ TapeIdle /\ ManagerIdle
SpecPilot == InitPilot /\ [][PilotNext]_vars
SpecCalls == InitPilot /\ [][CallsNext]_vars

InitRecorder ==
    TapeInit /\ RngIdle /\ SnakeIdle /\ FoodIdle /\ ReplayIdle /\ StoreIdle /\ ShareIdle /\ GameIdle
    /\ PilotIdle /\ ManagerIdle
SpecRecorder == InitRecorder /\ [][TapeNext]_vars
SpecSessions == InitRecorder /\ [][SessionsNext]_vars

InitObstacle ==
    ObstacleInit /\ RngIdle /\ SnakeIdle /\ FoodIdle /\ ReplayIdle /\ StoreIdle /\ ShareIdle
    /\ GameIdle /\ PilotIdle /\ TapeIdle
SpecObstacle == InitObstacle /\ [][ObstacleNext]_vars

InitSpawns ==
    SpawnsInit /\ RngIdle /\ SnakeIdle /\ FoodIdle /\ ReplayIdle /\ StoreIdle /\ ShareIdle
    /\ GameIdle /\ PilotIdle /\ TapeIdle
SpecSpawns == InitSpawns /\ [][SpawnsNext]_vars

InitFood == FoodInit /\ RngIdle /\ SnakeIdle /\ ReplayIdle /\ StoreIdle /\ ShareIdle /\ GameIdle /\ PilotIdle /\ TapeIdle /\ ManagerIdle
SpecFood == InitFood /\ [][FoodNext]_vars

====
